---------------------------- MODULE Spec2Model ----------------------------
(***************************************************************************)
(* A model of the Recipe Consolidator (recipe-consolidator.js): the        *)
(* ingredient line parser, the unit converter, the quantity formatter, the *)
(* consolidation pass and the operations on the application state          *)
(* (recipes, activeRecipeIds, recipeMultipliers, unitSystem, the pending   *)
(* review and the browser's key/value store).                              *)
(*                                                                         *)
(* Numbers.  A JavaScript number is modelled as an exact rational          *)
(* [n |-> numerator, d |-> denominator], d > 0, in lowest terms; NaN is    *)
(* the record with d = 0.  Binary floating-point rounding is not modelled. *)
(*                                                                         *)
(* Text.  A JavaScript string is modelled as a sequence of characters,     *)
(* each character a TLA+ string.  A non-ASCII character is written as a    *)
(* name in braces: "{1/2}" is the vulgar fraction one half (U+00BD),       *)
(* "{--}" the em dash (U+2014), "{x}" the multiplication sign (U+00D7).    *)
(***************************************************************************)
EXTENDS Integers, Sequences, FiniteSets, TLC

-----------------------------------------------------------------------------
(* Numbers *)

Abs(x) == IF x < 0 THEN -x ELSE x

RECURSIVE Gcd(_, _)
Gcd(a, b) == IF b = 0 THEN a ELSE Gcd(b, a % b)

\* The rational n/d (d # 0) in lowest terms with a positive denominator.
Rat(n, d) ==
    LET g == Gcd(Abs(n), Abs(d))
        s == IF d < 0 THEN -1 ELSE 1
    IN  [n |-> s * (n \div g), d |-> s * (d \div g)]

Num(i) == [n |-> i, d |-> 1]

NaN == [n |-> 0, d |-> 0]

isNaN(x) == x.d = 0

RAdd(x, y) == Rat(x.n * y.d + y.n * x.d, x.d * y.d)
RSub(x, y) == Rat(x.n * y.d - y.n * x.d, x.d * y.d)
RMul(x, y) == Rat(x.n * y.n, x.d * y.d)
\* x / y for y # 0 (the code divides by table factors and by 16 only)
RDiv(x, y) == Rat(x.n * y.d, x.d * y.n)
RLt(x, y)  == x.n * y.d < y.n * x.d
RLe(x, y)  == x.n * y.d <= y.n * x.d
RAbs(x)    == [n |-> Abs(x.n), d |-> x.d]

\* Math.floor on a rational (floor division also for negative numerators)
Floor(x) == IF x.n >= 0 THEN x.n \div x.d ELSE -((-x.n + x.d - 1) \div x.d)

\* Math.round: the nearest integer, halves rounded up
Round(x) == Floor(RAdd(x, Rat(1, 2)))

\* Math.round(x * 100) / 100
Round2(x) == Rat(Round(RMul(x, Num(100))), 100)

RECURSIVE RSum(_)
RSum(s) == IF s = <<>> THEN Num(0) ELSE RAdd(s[1], RSum(Tail(s)))

-----------------------------------------------------------------------------
(* Text *)

\* The value of a failed match or parse (JavaScript null)
null == [isNull |-> TRUE]

Digits == {"0", "1", "2", "3", "4", "5", "6", "7", "8", "9"}

IsDigit(c) == c \in Digits

DigitVal(c) ==
    CASE c = "0" -> 0 [] c = "1" -> 1 [] c = "2" -> 2 [] c = "3" -> 3
      [] c = "4" -> 4 [] c = "5" -> 5 [] c = "6" -> 6 [] c = "7" -> 7
      [] c = "8" -> 8 [] c = "9" -> 9

\* \s of a regular expression, and what trim() removes
IsSpace(c) == c \in {" ", "\t", "\n"}

\* s.substring(k) and s.substring(0, k)
Drop(s, k) == SubSeq(s, k + 1, Len(s))
Take(s, k) == SubSeq(s, 1, k)

\* The length of the match of \d* and of \s* at the start of s
RECURSIVE DigitRun(_)
DigitRun(s) == IF s # <<>> /\ IsDigit(s[1]) THEN 1 + DigitRun(Tail(s)) ELSE 0

RECURSIVE SpaceRun(_)
SpaceRun(s) == IF s # <<>> /\ IsSpace(s[1]) THEN 1 + SpaceRun(Tail(s)) ELSE 0

RECURSIVE TrimEnd(_)
TrimEnd(s) ==
    IF s # <<>> /\ IsSpace(s[Len(s)]) THEN TrimEnd(Take(s, Len(s) - 1)) ELSE s

\* s.trim()
Trim(s) == TrimEnd(Drop(s, SpaceRun(s)))

\* parseFloat of a run of digits
RECURSIVE ParseNat(_)
ParseNat(ds) ==
    IF ds = <<>> THEN 0
    ELSE 10 * ParseNat(Take(ds, Len(ds) - 1)) + DigitVal(ds[Len(ds)])

\* parseFloat of "i.f", digits i and f
RECURSIVE Pow10(_)
Pow10(k) == IF k = 0 THEN 1 ELSE 10 * Pow10(k - 1)

ParseDecimal(i, f) == RAdd(Num(ParseNat(i)), Rat(ParseNat(f), Pow10(Len(f))))

Upper == <<"A", "B", "C", "D", "E", "F", "G", "H", "I", "J", "K", "L", "M",
           "N", "O", "P", "Q", "R", "S", "T", "U", "V", "W", "X", "Y", "Z">>
Lower == <<"a", "b", "c", "d", "e", "f", "g", "h", "i", "j", "k", "l", "m",
           "n", "o", "p", "q", "r", "s", "t", "u", "v", "w", "x", "y", "z">>

\* c.toLowerCase() and s.toLowerCase()
LowerChar(c) ==
    IF \E i \in 1..26 : Upper[i] = c
    THEN Lower[CHOOSE i \in 1..26 : Upper[i] = c]
    ELSE c

toLowerCase(s) == [i \in 1..Len(s) |-> LowerChar(s[i])]

\* s.startsWith(p) and s.endsWith(p)
startsWith(s, p) == Len(p) <= Len(s) /\ Take(s, Len(p)) = p
endsWith(s, p)   == Len(p) <= Len(s) /\ Drop(s, Len(s) - Len(p)) = p

\* s.indexOf(p) counted from 0, -1 when p does not occur
indexOf(s, p) ==
    IF \E i \in 0..(Len(s) - Len(p)) : startsWith(Drop(s, i), p)
    THEN CHOOSE i \in 0..(Len(s) - Len(p)) :
            /\ startsWith(Drop(s, i), p)
            /\ \A j \in 0..(i - 1) : ~startsWith(Drop(s, j), p)
    ELSE -1

\* s.lastIndexOf(p) counted from 0 (p occurs in s)
lastIndexOf(s, p) ==
    CHOOSE i \in 0..(Len(s) - Len(p)) :
        /\ startsWith(Drop(s, i), p)
        /\ \A j \in (i + 1)..(Len(s) - Len(p)) : ~startsWith(Drop(s, j), p)

includes(s, p) == indexOf(s, p) # -1

\* s.split(c) for a one-character separator c: the sequence of the pieces
RECURSIVE split(_, _)
split(s, c) ==
    LET i == indexOf(s, <<c>>)
    IN  IF i = -1 THEN <<s>> ELSE <<Take(s, i)>> \o split(Drop(s, i + 1), c)

\* pieces.join(sep)
RECURSIVE join(_, _)
join(pieces, sep) ==
    IF pieces = <<>> THEN <<>>
    ELSE IF Len(pieces) = 1 THEN pieces[1]
    ELSE pieces[1] \o sep \o join(Tail(pieces), sep)

-----------------------------------------------------------------------------
(* UNIT_CONVERSIONS: unit names in the order of the source, with the factor *)
(* to the base unit (millilitres for volume, grams for weight)              *)

VolumeUnits ==
  <<
    [name |-> <<"c", "u", "p">>, factor |-> Num(240)],
    [name |-> <<"c", "u", "p", "s">>, factor |-> Num(240)],
    [name |-> <<"c">>, factor |-> Num(240)],
    [name |-> <<"c", ".">>, factor |-> Num(240)],
    [name |-> <<"c", "u", "p", ".">>, factor |-> Num(240)],
    [name |-> <<"t", "a", "b", "l", "e", "s", "p", "o", "o", "n">>, factor |-> Num(15)],
    [name |-> <<"t", "a", "b", "l", "e", "s", "p", "o", "o", "n", "s">>, factor |-> Num(15)],
    [name |-> <<"t", "b", "s", "p">>, factor |-> Num(15)],
    [name |-> <<"t", "b", "s", "p", ".">>, factor |-> Num(15)],
    [name |-> <<"t", "b", "s">>, factor |-> Num(15)],
    [name |-> <<"t", "b", "s", ".">>, factor |-> Num(15)],
    [name |-> <<"T">>, factor |-> Num(15)],
    [name |-> <<"T", ".">>, factor |-> Num(15)],
    [name |-> <<"T", "B">>, factor |-> Num(15)],
    [name |-> <<"T", "B", "S", "P">>, factor |-> Num(15)],
    [name |-> <<"t", "e", "a", "s", "p", "o", "o", "n">>, factor |-> Num(5)],
    [name |-> <<"t", "e", "a", "s", "p", "o", "o", "n", "s">>, factor |-> Num(5)],
    [name |-> <<"t", "s", "p">>, factor |-> Num(5)],
    [name |-> <<"t", "s", "p", ".">>, factor |-> Num(5)],
    [name |-> <<"t">>, factor |-> Num(5)],
    [name |-> <<"t", ".">>, factor |-> Num(5)],
    [name |-> <<"T", "S", "P">>, factor |-> Num(5)],
    [name |-> <<"f", "l", "u", "i", "d", " ", "o", "u", "n", "c", "e">>, factor |-> Num(30)],
    [name |-> <<"f", "l", "u", "i", "d", " ", "o", "u", "n", "c", "e", "s">>, factor |-> Num(30)],
    [name |-> <<"f", "l", " ", "o", "z">>, factor |-> Num(30)],
    [name |-> <<"f", "l", ".", " ", "o", "z", ".">>, factor |-> Num(30)],
    [name |-> <<"f", "l", " ", "o", "z", ".">>, factor |-> Num(30)],
    [name |-> <<"f", "l">>, factor |-> Num(30)],
    [name |-> <<"p", "i", "n", "t">>, factor |-> Num(480)],
    [name |-> <<"p", "i", "n", "t", "s">>, factor |-> Num(480)],
    [name |-> <<"p", "t">>, factor |-> Num(480)],
    [name |-> <<"p", "t", ".">>, factor |-> Num(480)],
    [name |-> <<"q", "u", "a", "r", "t">>, factor |-> Num(960)],
    [name |-> <<"q", "u", "a", "r", "t", "s">>, factor |-> Num(960)],
    [name |-> <<"q", "t">>, factor |-> Num(960)],
    [name |-> <<"q", "t", ".">>, factor |-> Num(960)],
    [name |-> <<"g", "a", "l", "l", "o", "n">>, factor |-> Num(3840)],
    [name |-> <<"g", "a", "l", "l", "o", "n", "s">>, factor |-> Num(3840)],
    [name |-> <<"g", "a", "l">>, factor |-> Num(3840)],
    [name |-> <<"g", "a", "l", ".">>, factor |-> Num(3840)],
    [name |-> <<"m", "i", "l", "l", "i", "l", "i", "t", "e", "r">>, factor |-> Num(1)],
    [name |-> <<"m", "i", "l", "l", "i", "l", "i", "t", "e", "r", "s">>, factor |-> Num(1)],
    [name |-> <<"m", "l">>, factor |-> Num(1)],
    [name |-> <<"m", "l", ".">>, factor |-> Num(1)],
    [name |-> <<"l", "i", "t", "e", "r">>, factor |-> Num(1000)],
    [name |-> <<"l", "i", "t", "e", "r", "s">>, factor |-> Num(1000)],
    [name |-> <<"l">>, factor |-> Num(1000)],
    [name |-> <<"l", ".">>, factor |-> Num(1000)],
    [name |-> <<"L">>, factor |-> Num(1000)],
    [name |-> <<"L", ".">>, factor |-> Num(1000)]
  >>

WeightUnits ==
  <<
    [name |-> <<"o", "u", "n", "c", "e">>, factor |-> Rat(2835, 100)],
    [name |-> <<"o", "u", "n", "c", "e", "s">>, factor |-> Rat(2835, 100)],
    [name |-> <<"o", "z">>, factor |-> Rat(2835, 100)],
    [name |-> <<"o", "z", ".">>, factor |-> Rat(2835, 100)],
    [name |-> <<"p", "o", "u", "n", "d">>, factor |-> Rat(4536, 10)],
    [name |-> <<"p", "o", "u", "n", "d", "s">>, factor |-> Rat(4536, 10)],
    [name |-> <<"l", "b">>, factor |-> Rat(4536, 10)],
    [name |-> <<"l", "b", ".">>, factor |-> Rat(4536, 10)],
    [name |-> <<"l", "b", "s">>, factor |-> Rat(4536, 10)],
    [name |-> <<"l", "b", "s", ".">>, factor |-> Rat(4536, 10)],
    [name |-> <<"p", "o", "u", "n", "d", ".">>, factor |-> Rat(4536, 10)],
    [name |-> <<"g", "r", "a", "m">>, factor |-> Num(1)],
    [name |-> <<"g", "r", "a", "m", "s">>, factor |-> Num(1)],
    [name |-> <<"g">>, factor |-> Num(1)],
    [name |-> <<"g", ".">>, factor |-> Num(1)],
    [name |-> <<"k", "i", "l", "o", "g", "r", "a", "m">>, factor |-> Num(1000)],
    [name |-> <<"k", "i", "l", "o", "g", "r", "a", "m", "s">>, factor |-> Num(1000)],
    [name |-> <<"k", "g">>, factor |-> Num(1000)],
    [name |-> <<"k", "g", ".">>, factor |-> Num(1000)]
  >>

\* UNIT_CONVERSIONS[unitType]; undefined (null) for any other unitType
UNIT_CONVERSIONS(unitType) ==
    CASE unitType = "volume" -> VolumeUnits
      [] unitType = "weight" -> WeightUnits
      [] OTHER -> null

\* conversions[key]: the factor stored under exactly this key, null when absent
Lookup(conversions, key) ==
    IF \E i \in 1..Len(conversions) : conversions[i].name = key
    THEN conversions[CHOOSE i \in 1..Len(conversions) :
                        conversions[i].name = key].factor
    ELSE null

ML    == <<"m", "l">>
G     == <<"g">>
COUNT == <<"c", "o", "u", "n", "t">>

\* Every quantity as a count, whatever its unit
unitDropped(quantity, unit, unitType) ==
    [value |-> quantity, unit |-> COUNT, unitType |-> unitType]

\* convertToBaseUnit(quantity, unit, unitType).  A unit that is null is the
\* empty text: the code tests units by truthiness only.
convertToBaseUnit(quantity, unit, unitType) ==
    IF unit = <<>> \/ unitType = "count"
    THEN [value |-> quantity,
          unit |-> IF unit = <<>> THEN COUNT ELSE unit,
          unitType |-> unitType]
    ELSE LET conversions == UNIT_CONVERSIONS(unitType)
             factor == IF conversions = null THEN null
                       ELSE Lookup(conversions, toLowerCase(unit))
         IN  IF factor = null
             THEN [value |-> quantity, unit |-> unit, unitType |-> unitType]
             ELSE [value |-> RMul(quantity, factor),
                   unit |-> IF unitType = "volume" THEN ML ELSE G,
                   unitType |-> unitType]

-----------------------------------------------------------------------------
(* extractQuantity *)

Glyphs == {"{1/2}", "{1/3}", "{2/3}", "{1/4}", "{3/4}", "{1/5}", "{2/5}",
           "{3/5}", "{4/5}", "{1/6}", "{5/6}", "{1/8}", "{3/8}", "{5/8}",
           "{7/8}"}

IsGlyph(c) == c \in Glyphs

\* A table that knows no glyph
noGlyphValue(fracChar) == null

unicodeFractionToDecimal(fracChar) ==
    CASE fracChar = "{1/2}" -> Rat(1, 2) [] fracChar = "{1/3}" -> Rat(1, 3)
      [] fracChar = "{2/3}" -> Rat(2, 3) [] fracChar = "{1/4}" -> Rat(1, 4)
      [] fracChar = "{3/4}" -> Rat(3, 4) [] fracChar = "{1/5}" -> Rat(1, 5)
      [] fracChar = "{2/5}" -> Rat(2, 5) [] fracChar = "{3/5}" -> Rat(3, 5)
      [] fracChar = "{4/5}" -> Rat(4, 5) [] fracChar = "{1/6}" -> Rat(1, 6)
      [] fracChar = "{5/6}" -> Rat(5, 6) [] fracChar = "{1/8}" -> Rat(1, 8)
      [] fracChar = "{3/8}" -> Rat(3, 8) [] fracChar = "{5/8}" -> Rat(5, 8)
      [] fracChar = "{7/8}" -> Rat(7, 8)
      [] OTHER -> null

\* The closing group (?:\s|$|[^\d]) of the quantity patterns, tried on the
\* text r that follows the number: it matches at the end of the text or
\* takes one character that is not a digit.
TailOk(r)  == r = <<>> \/ ~IsDigit(r[1])
TailLen(r) == IF r = <<>> THEN 0 ELSE 1

\* /^(\d+)\s*-\s*(\d+)(?:\s|$|[^\d])/ : [m0, g1, g2] or null
rangeMatch(text) ==
    LET d1 == DigitRun(text)
        a  == Drop(text, d1)
        s1 == SpaceRun(a)
        b  == Drop(a, s1)
        c  == Drop(b, 1)
        s2 == SpaceRun(c)
        d  == Drop(c, s2)
        d2 == DigitRun(d)
        e  == Drop(d, d2)
    IN  IF d1 > 0 /\ b # <<>> /\ b[1] = "-" /\ d2 > 0 /\ TailOk(e)
        THEN [m0 |-> Take(text, d1 + s1 + 1 + s2 + d2 + TailLen(e)),
              g1 |-> Take(text, d1), g2 |-> Take(d, d2)]
        ELSE null

\* /^(\d+)([glyph])/
mixedUnicodeMatch(text) ==
    LET d1 == DigitRun(text)
        a  == Drop(text, d1)
    IN  IF d1 > 0 /\ a # <<>> /\ IsGlyph(a[1])
        THEN [m0 |-> Take(text, d1 + 1), g1 |-> Take(text, d1), g2 |-> a[1]]
        ELSE null

\* /^(\d+)\s+([glyph])/
mixedUnicodeSpaceMatch(text) ==
    LET d1 == DigitRun(text)
        a  == Drop(text, d1)
        s1 == SpaceRun(a)
        b  == Drop(a, s1)
    IN  IF d1 > 0 /\ s1 > 0 /\ b # <<>> /\ IsGlyph(b[1])
        THEN [m0 |-> Take(text, d1 + s1 + 1), g1 |-> Take(text, d1),
              g2 |-> b[1]]
        ELSE null

\* /^([glyph])(?:\s|$|[^\d])/
unicodeFractionMatch(text) ==
    IF text # <<>> /\ IsGlyph(text[1]) /\ TailOk(Tail(text))
    THEN [m0 |-> Take(text, 1 + TailLen(Tail(text))), g1 |-> text[1]]
    ELSE null

\* /^(\d+)\/(\d+)(?:\s|$|[^\d])/
fractionMatch(text) ==
    LET d1 == DigitRun(text)
        a  == Drop(text, d1)
        b  == Drop(a, 1)
        d2 == DigitRun(b)
        c  == Drop(b, d2)
    IN  IF d1 > 0 /\ a # <<>> /\ a[1] = "/" /\ d2 > 0 /\ TailOk(c)
        THEN [m0 |-> Take(text, d1 + 1 + d2 + TailLen(c)),
              g1 |-> Take(text, d1), g2 |-> Take(b, d2)]
        ELSE null

\* /^(\d+)\s+(\d+)\/(\d+)(?:\s|$|[^\d])/
mixedMatch(text) ==
    LET d1 == DigitRun(text)
        a  == Drop(text, d1)
        s1 == SpaceRun(a)
        f  == fractionMatch(Drop(a, s1))
    IN  IF d1 > 0 /\ s1 > 0 /\ f # null
        THEN [m0 |-> Take(text, d1 + s1 + Len(f.m0)), g1 |-> Take(text, d1),
              g2 |-> f.g1, g3 |-> f.g2]
        ELSE null

\* /^(\d+\.\d+)(?:\s|$|[^\d])/
decimalMatch(text) ==
    LET d1 == DigitRun(text)
        a  == Drop(text, d1)
        b  == Drop(a, 1)
        d2 == DigitRun(b)
        c  == Drop(b, d2)
    IN  IF d1 > 0 /\ a # <<>> /\ a[1] = "." /\ d2 > 0 /\ TailOk(c)
        THEN [m0 |-> Take(text, d1 + 1 + d2 + TailLen(c)),
              g1 |-> Take(text, d1), g2 |-> Take(b, d2)]
        ELSE null

\* The last pattern, /^(\d+)/, with its two checks of what follows
wholeNumber(text) ==
    LET d1 == DigitRun(text)
        afterNumber == Drop(text, d1)
        afterNumberTrimmed == Trim(afterNumber)
        \* /^(\d+\/\d+|[glyph])/ on afterNumberTrimmed
        fractionFollows ==
            \/ afterNumberTrimmed # <<>> /\ IsGlyph(afterNumberTrimmed[1])
            \/ LET n1 == DigitRun(afterNumberTrimmed)
                   r  == Drop(afterNumberTrimmed, n1)
               IN  n1 > 0 /\ Len(r) >= 2 /\ r[1] = "/" /\ IsDigit(r[2])
    IN  IF d1 = 0 THEN null
        ELSE IF afterNumber # <<>> /\ IsGlyph(afterNumber[1]) THEN null
        ELSE IF ~fractionFollows
             THEN [quantity |-> Num(ParseNat(Take(text, d1))), consumed |-> d1]
             ELSE null

\* The patterns after the range pattern, in the order of the code; each
\* argument after the text is the match of one pattern, or null
firstPattern(text, mu, mus, uf, mm, fm, dm) ==
    IF mu # null /\ unicodeFractionToDecimal(mu.g2) # null
    THEN [quantity |-> RAdd(Num(ParseNat(mu.g1)),
                            unicodeFractionToDecimal(mu.g2)),
          consumed |-> Len(mu.g1) + 1]
    ELSE IF mus # null /\ unicodeFractionToDecimal(mus.g2) # null
    THEN [quantity |-> RAdd(Num(ParseNat(mus.g1)),
                            unicodeFractionToDecimal(mus.g2)),
          consumed |-> Len(mus.m0)]
    ELSE IF uf # null /\ unicodeFractionToDecimal(uf.g1) # null
    THEN [quantity |-> unicodeFractionToDecimal(uf.g1),
          consumed |-> Len(Trim(uf.m0))]
    ELSE IF mm # null /\ ParseNat(mm.g3) # 0
            /\ ParseNat(mm.g2) < ParseNat(mm.g3)
    THEN [quantity |-> RAdd(Num(ParseNat(mm.g1)),
                            Rat(ParseNat(mm.g2), ParseNat(mm.g3))),
          consumed |-> Len(Trim(mm.m0))]
    ELSE IF fm # null /\ ParseNat(fm.g2) # 0
            /\ ParseNat(fm.g1) < ParseNat(fm.g2)
    THEN [quantity |-> Rat(ParseNat(fm.g1), ParseNat(fm.g2)),
          consumed |-> Len(Trim(fm.m0))]
    ELSE IF dm # null
    THEN [quantity |-> ParseDecimal(dm.g1, dm.g2),
          consumed |-> Len(Trim(dm.m0))]
    ELSE wholeNumber(text)

extractAfterRange(text) ==
    firstPattern(text, mixedUnicodeMatch(text), mixedUnicodeSpaceMatch(text),
                 unicodeFractionMatch(text), mixedMatch(text),
                 fractionMatch(text), decimalMatch(text))

\* The range branch returning the lower bound
rangeQuantityMin(min, max) == min

\* The range pattern: the upper bound of "N-M" when M >= N
rangeQuantity(min, max) == max

\* The range branch on the trimmed text and the match rm of its pattern
rangeOrLater(text, rm) ==
    IF rm # null /\ ParseNat(rm.g2) >= ParseNat(rm.g1)
    THEN [quantity |-> Num(rangeQuantity(ParseNat(rm.g1), ParseNat(rm.g2))),
          consumed |-> Len(Trim(rm.m0))]
    ELSE extractAfterRange(text)

extractQuantity(text0) == rangeOrLater(Trim(text0), rangeMatch(Trim(text0)))

-----------------------------------------------------------------------------
(* normalizeIngredientName *)

INGREDIENT_ALIASES ==
  <<
    [key |-> <<"f", "l", "o", "u", "r">>,
     aliases |-> <<<<"a", "l", "l", "-", "p", "u", "r", "p", "o", "s", "e", " ", "f", "l", "o", "u", "r">>,
                   <<"a", "p", " ", "f", "l", "o", "u", "r">>,
                   <<"p", "l", "a", "i", "n", " ", "f", "l", "o", "u", "r">>,
                   <<"w", "h", "i", "t", "e", " ", "f", "l", "o", "u", "r">>>>],
    [key |-> <<"o", "n", "i", "o", "n">>,
     aliases |-> <<<<"y", "e", "l", "l", "o", "w", " ", "o", "n", "i", "o", "n">>,
                   <<"w", "h", "i", "t", "e", " ", "o", "n", "i", "o", "n">>,
                   <<"o", "n", "i", "o", "n", "s">>>>],
    [key |-> <<"g", "a", "r", "l", "i", "c">>,
     aliases |-> <<<<"g", "a", "r", "l", "i", "c", " ", "c", "l", "o", "v", "e", "s">>,
                   <<"g", "a", "r", "l", "i", "c", " ", "c", "l", "o", "v", "e">>>>],
    [key |-> <<"s", "a", "l", "t">>,
     aliases |-> <<<<"t", "a", "b", "l", "e", " ", "s", "a", "l", "t">>,
                   <<"k", "o", "s", "h", "e", "r", " ", "s", "a", "l", "t">>>>],
    [key |-> <<"s", "u", "g", "a", "r">>,
     aliases |-> <<<<"w", "h", "i", "t", "e", " ", "s", "u", "g", "a", "r">>,
                   <<"g", "r", "a", "n", "u", "l", "a", "t", "e", "d", " ", "s", "u", "g", "a", "r">>>>],
    [key |-> <<"b", "u", "t", "t", "e", "r">>,
     aliases |-> <<<<"u", "n", "s", "a", "l", "t", "e", "d", " ", "b", "u", "t", "t", "e", "r">>,
                   <<"s", "a", "l", "t", "e", "d", " ", "b", "u", "t", "t", "e", "r">>>>],
    [key |-> <<"o", "i", "l">>,
     aliases |-> <<<<"v", "e", "g", "e", "t", "a", "b", "l", "e", " ", "o", "i", "l">>,
                   <<"c", "o", "o", "k", "i", "n", "g", " ", "o", "i", "l">>,
                   <<"c", "a", "n", "o", "l", "a", " ", "o", "i", "l">>>>],
    [key |-> <<"p", "e", "p", "p", "e", "r">>,
     aliases |-> <<<<"b", "l", "a", "c", "k", " ", "p", "e", "p", "p", "e", "r">>,
                   <<"g", "r", "o", "u", "n", "d", " ", "p", "e", "p", "p", "e", "r">>>>],
    [key |-> <<"m", "i", "l", "k">>,
     aliases |-> <<<<"w", "h", "o", "l", "e", " ", "m", "i", "l", "k">>,
                   <<"2", "%", " ", "m", "i", "l", "k">>,
                   <<"s", "k", "i", "m", " ", "m", "i", "l", "k">>>>]
  >>

INGREDIENT_PREP_WORDS ==
  <<
    <<"f", "r", "e", "s", "h">>,
    <<"d", "r", "i", "e", "d">>,
    <<"g", "r", "o", "u", "n", "d">>,
    <<"c", "h", "o", "p", "p", "e", "d">>,
    <<"d", "i", "c", "e", "d">>,
    <<"s", "l", "i", "c", "e", "d">>,
    <<"m", "i", "n", "c", "e", "d">>,
    <<"g", "r", "a", "t", "e", "d">>,
    <<"c", "r", "u", "s", "h", "e", "d">>,
    <<"p", "e", "e", "l", "e", "d">>,
    <<"s", "h", "r", "e", "d", "d", "e", "d">>,
    <<"f", "i", "n", "e", "l", "y">>,
    <<"r", "o", "u", "g", "h", "l", "y">>,
    <<"c", "o", "a", "r", "s", "e", "l", "y">>,
    <<"h", "a", "l", "v", "e", "d">>,
    <<"q", "u", "a", "r", "t", "e", "r", "e", "d">>,
    <<"r", "i", "p", "e">>,
    <<"l", "a", "r", "g", "e">>,
    <<"s", "m", "a", "l", "l">>,
    <<"m", "e", "d", "i", "u", "m">>,
    <<"o", "p", "t", "i", "o", "n", "a", "l">>,
    <<"t", "o", " ", "t", "a", "s", "t", "e">>
  >>

\* s.replace(/\(.*?\)/g, ''): every "(" up to the nearest ")" after it
RECURSIVE removeParens(_)
removeParens(s) ==
    LET i == indexOf(s, <<"(">>)
        r == Drop(s, i + 1)
        j == indexOf(r, <<")">>)
    IN  IF i = -1 \/ j = -1 THEN s
        ELSE Take(s, i) \o removeParens(Drop(r, j + 1))

\* s.replace(/\s+/g, ' ')
RECURSIVE collapseSpaces(_)
collapseSpaces(s) ==
    IF s = <<>> THEN <<>>
    ELSE IF IsSpace(s[1])
         THEN <<" ">> \o collapseSpaces(Drop(s, SpaceRun(s)))
         ELSE <<s[1]>> \o collapseSpaces(Tail(s))

PrepWordIndexes == 1..Len(INGREDIENT_PREP_WORDS)

\* The smallest member of a non-empty set of indexes
firstOf(hits) == CHOOSE i \in hits : \A j \in hits : i <= j

\* ^(?:w)\s+ matches s
leadsWith(s, w) ==
    startsWith(s, w) /\ Len(s) > Len(w) /\ IsSpace(s[Len(w) + 1])

\* \s+(?:w)$ matches s
trailsWith(s, w) ==
    endsWith(s, w) /\ Len(s) > Len(w) /\ IsSpace(s[Len(s) - Len(w)])

\* s without the prep word w and the blanks after it at its start
dropLead(s, w) == Drop(s, Len(w) + SpaceRun(Drop(s, Len(w))))

\* s without the first of the prep words hits that starts it
withoutLead(s, hits) ==
    IF hits = {} THEN s ELSE dropLead(s, INGREDIENT_PREP_WORDS[firstOf(hits)])

\* s without the first of the prep words hits that ends it
withoutTrail(s, hits) ==
    IF hits = {} THEN s
    ELSE TrimEnd(Take(s, Len(s) - Len(INGREDIENT_PREP_WORDS[firstOf(hits)])))

dropTrailingWord(s) ==
    withoutTrail(s, {i \in PrepWordIndexes :
                        trailsWith(s, INGREDIENT_PREP_WORDS[i])})

\* s.replace(prepRegex, '') for
\* /^(?:w1|w2|...)\s+|\s+(?:w1|w2|...)$/gi on lower-case s: one prep word
\* with the blanks after it at the start, then one prep word with the
\* blanks before it at the end of what is left.
replacePrepRegex(s) ==
    dropTrailingWord(
        withoutLead(s, {i \in PrepWordIndexes :
                           leadsWith(s, INGREDIENT_PREP_WORDS[i])}))

TOMATOES == <<"t", "o", "m", "a", "t", "o", "e", "s">>
POTATOES == <<"p", "o", "t", "a", "t", "o", "e", "s">>

\* The plural step of normalizeIngredientName
singularize(s) ==
    IF endsWith(s, <<"e", "s">>)
    THEN IF endsWith(s, TOMATOES) \/ endsWith(s, POTATOES)
         THEN Take(s, Len(s) - 2)
         ELSE s
    ELSE IF endsWith(s, <<"s">>) THEN Take(s, Len(s) - 1)
    ELSE s

\* The alias step: the first key of INGREDIENT_ALIASES that normalized
\* equals, or one of whose aliases contains or is contained in normalized
aliasMatches(normalized, entry) ==
    \/ normalized = entry.key
    \/ \E k \in 1..Len(entry.aliases) :
          \/ includes(normalized, entry.aliases[k])
          \/ includes(entry.aliases[k], normalized)

\* The key of the first of the alias entries hits, or normalized itself
aliasOr(normalized, hits) ==
    IF hits = {} THEN normalized ELSE INGREDIENT_ALIASES[firstOf(hits)].key

resolveAlias(normalized) ==
    aliasOr(normalized, {i \in 1..Len(INGREDIENT_ALIASES) :
                            aliasMatches(normalized, INGREDIENT_ALIASES[i])})

\* The cleaning steps of normalizeIngredientName before the plural step:
\* lower case, parentheses removed, cut at the first comma, prep words
\* removed, blanks collapsed, trimmed after every step
cleanName(name) ==
    Trim(collapseSpaces(Trim(replacePrepRegex(Trim(
        split(Trim(removeParens(Trim(toLowerCase(name)))), ",")[1])))))

normalizeIngredientName(name) ==
    IF name = <<>> THEN <<>>
    ELSE resolveAlias(singularize(cleanName(name)))

-----------------------------------------------------------------------------
(* inferIngredientNotes and splitPrepWordsFromName *)

EMDASH == "{--}"

\* pieces.map(p => p.trim()).filter(Boolean)
RECURSIVE trimAll(_)
trimAll(pieces) ==
    IF pieces = <<>> THEN <<>>
    ELSE IF Trim(pieces[1]) = <<>> THEN trimAll(Tail(pieces))
    ELSE <<Trim(pieces[1])>> \o trimAll(Tail(pieces))

\* /^(s|es)$/i.test(t)
isPluralSuffix(t) == toLowerCase(t) \in {<<"s">>, <<"e", "s">>}

\* The character class [,.-\s]
IsPunct(c) == c \in {",", ".", "-"} \/ IsSpace(c)

RECURSIVE stripPunctStart(_)
stripPunctStart(s) ==
    IF s # <<>> /\ IsPunct(s[1]) THEN stripPunctStart(Tail(s)) ELSE s

RECURSIVE stripPunctEnd(_)
stripPunctEnd(s) ==
    IF s # <<>> /\ IsPunct(s[Len(s)])
    THEN stripPunctEnd(Take(s, Len(s) - 1)) ELSE s

\* [before, after].filter(Boolean).join(' ')
joinNonEmpty(before, after) ==
    IF before = <<>> THEN after
    ELSE IF after = <<>> THEN before
    ELSE before \o <<" ">> \o after

\* combined.slice(1, -1).trim() when combined is wrapped in parentheses
unwrap(combined) ==
    IF Len(combined) >= 2 /\ combined[1] = "(" /\ combined[Len(combined)] = ")"
    THEN Trim(SubSeq(combined, 2, Len(combined) - 1))
    ELSE Trim(combined)

\* The em-dash step: the first part that is not a plural crumb, else the
\* last part, else the empty text
dashPart(parts, filtered) ==
    IF filtered # <<>> THEN filtered[1]
    ELSE IF parts # <<>> THEN Trim(parts[Len(parts)])
    ELSE <<>>

dashParts(parts) ==
    dashPart(parts, SelectSeq(parts, LAMBDA q : ~isPluralSuffix(q)))

afterDash(unwrapped) ==
    IF includes(unwrapped, <<EMDASH>>)
    THEN dashParts(trimAll(split(unwrapped, EMDASH)))
    ELSE unwrapped

\* The last two checks: a plural crumb or a salt descriptor is no note
dropCrumb(combined) ==
    IF isPluralSuffix(combined) THEN <<>>
    ELSE IF toLowerCase(combined)
              \in {<<"k", "o", "s", "h", "e", "r">>, <<"s", "e", "a">>}
    THEN <<>>
    ELSE combined

\* The part of inferIngredientNotes after the punctuation has been stripped
finishNotes(combined0) == dropCrumb(afterDash(unwrap(combined0)))

notesOf(combined) == IF combined = <<>> THEN <<>> ELSE finishNotes(combined)

\* What rawName holds around the normalized name found in it at idx
notesAround(rawName, normalized, idx) ==
    IF rawName = <<>> \/ normalized = <<>> \/ idx = -1 THEN <<>>
    ELSE notesOf(stripPunctEnd(stripPunctStart(Trim(
             joinNonEmpty(Trim(Take(rawName, idx)),
                          Trim(Drop(rawName, idx + Len(normalized))))))))

notesFor(rawName, normalized) ==
    notesAround(rawName, normalized,
                indexOf(toLowerCase(rawName), toLowerCase(normalized)))

\* inferIngredientNotes(rawName); '' is the empty text
inferIngredientNotes(rawName) ==
    notesFor(rawName, normalizeIngredientName(rawName))

\* The prep words that start or end the lower-case name
prepHits(lower) ==
    {i \in PrepWordIndexes :
        \/ startsWith(lower, INGREDIENT_PREP_WORDS[i] \o <<" ">>)
        \/ endsWith(lower, <<" ">> \o INGREDIENT_PREP_WORDS[i])}

\* The name without the prep word w at its start, or else at its end
withoutWord(ingredientName, lower, w) ==
    IF startsWith(lower, w \o <<" ">>)
    THEN Trim(Drop(ingredientName, Len(w) + 1))
    ELSE Trim(Take(ingredientName, lastIndexOf(lower, <<" ">> \o w)))

\* The loop of splitPrepWordsFromName: [name, words], the name without the
\* prep words at its start and end and the removed words in order
RECURSIVE pullPrepWords(_, _)
RECURSIVE pullFirst(_, _, _)
pullFirst(ingredientName, words, hits) ==
    IF ingredientName = <<>> \/ hits = {}
    THEN [name |-> ingredientName, words |-> words]
    ELSE pullPrepWords(
             withoutWord(ingredientName, toLowerCase(ingredientName),
                         INGREDIENT_PREP_WORDS[firstOf(hits)]),
             Append(words, INGREDIENT_PREP_WORDS[firstOf(hits)]))

pullPrepWords(ingredientName, words) ==
    pullFirst(ingredientName, words, prepHits(toLowerCase(ingredientName)))

\* s.replace(/[,\s]+$/g, '')
RECURSIVE stripCommaEnd(_)
stripCommaEnd(s) ==
    IF s # <<>> /\ (s[Len(s)] = "," \/ IsSpace(s[Len(s)]))
    THEN stripCommaEnd(Take(s, Len(s) - 1)) ELSE s

\* t.split(/\s+/).filter(Boolean) without the words "s" and "es"
keptWords(t) ==
    SelectSeq(split(t, " "), LAMBDA w : w # <<>> /\ ~isPluralSuffix(w))

\* The tokens of the notes: split at commas, trimmed, plural crumbs dropped
RECURSIVE noteTokens(_)
noteTokens(rawTokens) ==
    IF rawTokens = <<>> THEN <<>>
    ELSE LET kept == keptWords(rawTokens[1])
         IN  IF kept = <<>> THEN noteTokens(Tail(rawTokens))
             ELSE <<join(kept, <<" ">>)>> \o noteTokens(Tail(rawTokens))

\* The first occurrence of every token, compared in lower case
RECURSIVE dedupe(_, _)
dedupe(tokens, seen) ==
    IF tokens = <<>> THEN <<>>
    ELSE IF toLowerCase(tokens[1]) \in seen THEN dedupe(Tail(tokens), seen)
    ELSE <<tokens[1]>>
         \o dedupe(Tail(tokens), seen \cup {toLowerCase(tokens[1])})

\* The notes text of splitPrepWordsFromName: the existing notes and the
\* removed words, split at commas, cleaned and without repetitions
joinedNotes(notesParts) ==
    Trim(join(dedupe(noteTokens(
                  trimAll(split(join(notesParts, <<",", " ">>), ","))), {}),
              <<",", " ">>))

nameAndNotes(existingNotes, pulled) ==
    [ingredientName |-> Trim(stripCommaEnd(pulled.name)),
     notes |-> joinedNotes((IF existingNotes = <<>> THEN <<>>
                            ELSE <<existingNotes>>) \o pulled.words)]

splitPrepWordsFromName(name, existingNotes) ==
    IF name = <<>> THEN [ingredientName |-> <<>>, notes |-> existingNotes]
    ELSE nameAndNotes(existingNotes,
                      pullPrepWords(Trim(removeParens(Trim(name))), <<>>))

\* The notes of a name: the text after its em dash, else the inferred ones
notesOrInferred(dashNotes, nameOnly) ==
    IF dashNotes # <<>> THEN dashNotes ELSE inferIngredientNotes(nameOnly)

splitAtDash(ingredientName, dashIndex) ==
    IF dashIndex # -1
    THEN [ingredientName |-> Trim(Take(ingredientName, dashIndex)),
          notes |-> notesOrInferred(Trim(Drop(ingredientName, dashIndex + 1)),
                                    Trim(Take(ingredientName, dashIndex)))]
    ELSE [ingredientName |-> ingredientName,
          notes |-> inferIngredientNotes(ingredientName)]

\* The notes and the name of a raw ingredient text, as every branch of
\* parseIngredientLine takes them: the text after an em dash is the notes,
\* otherwise the notes are inferred from the name
dashSplit(text) == splitAtDash(Trim(text), indexOf(Trim(text), <<EMDASH>>))

-----------------------------------------------------------------------------
(* The unit matcher, parseQuantityUnitPair and parseIngredientLine *)

MaxNameLen(units) ==
    CHOOSE m \in {Len(units[i].name) : i \in 1..Len(units)} :
        \A i \in 1..Len(units) : Len(units[i].name) <= m

RECURSIVE longestFirst(_, _)
longestFirst(units, len) ==
    IF len = 0 THEN <<>>
    ELSE SelectSeq(units, LAMBDA u : Len(u.name) = len)
         \o longestFirst(units, len - 1)

\* The table in its own order, not sorted
tableOrder(units) == units

\* Object.entries(units).sort((a, b) => b[0].length - a[0].length): longest
\* names first, names of one length in the order of the table (the sort is
\* stable)
sortUnits(units) == longestFirst(units, MaxNameLen(units))

SortedVolumeUnits == sortUnits(VolumeUnits)
SortedWeightUnits == sortUnits(WeightUnits)

\* The group (?:\s+|,|$|\.(?:\s|$)) on the text after a unit name of length
\* len: the length of the match with it, -1 when there is none
unitEnd(after, len) ==
    IF after = <<>> THEN len
    ELSE IF IsSpace(after[1]) THEN len + SpaceRun(after)
    ELSE IF after[1] = "," THEN len + 1
    ELSE IF after[1] = "." /\ Len(after) = 1 THEN len + 1
    ELSE IF after[1] = "." /\ IsSpace(after[2]) THEN len + 2
    ELSE -1

\* rest.match(new RegExp(`^${unit}(?:\\s+|,|$|\\.(?:\\s|$))`, 'i')): the
\* length of the match, -1 when there is none
unitRegexMatch(rest, unitName) ==
    IF ~(Len(rest) >= Len(unitName)
         /\ toLowerCase(Take(rest, Len(unitName))) = toLowerCase(unitName))
    THEN -1
    ELSE unitEnd(Drop(rest, Len(unitName)), Len(unitName))

\* s.replace(/^[,.\s]+/, '')
RECURSIVE stripLeadingPunct(_)
stripLeadingPunct(s) ==
    IF s # <<>> /\ (s[1] \in {",", "."} \/ IsSpace(s[1]))
    THEN stripLeadingPunct(Tail(s)) ELSE s

\* The text left after a unit matched with length matchedLength
remainingAfter(rest, matchedLength) ==
    stripLeadingPunct(Trim(Drop(rest, matchedLength)))

\* No text after a unit counts as starting with a digit
digitNeverSeen(remaining) == FALSE

\* A match is rejected when the text after it starts with a digit
rejectsDigit(remaining) == remaining # <<>> /\ IsDigit(remaining[1])

matchAccepted(rest, m) == m # -1 /\ ~rejectsDigit(remainingAfter(rest, m))

unitAccepted(rest, unitName) ==
    matchAccepted(rest, unitRegexMatch(rest, unitName))

\* The first of the accepted units hits of a sorted table with the text
\* after it, null when there is none
firstUnit(rest, sorted, hits) ==
    IF hits = {} THEN null
    ELSE [unit |-> sorted[firstOf(hits)].name,
          remaining |-> remainingAfter(
              rest, unitRegexMatch(rest, sorted[firstOf(hits)].name))]

\* The loop over one sorted table: the first accepted unit with the text
\* after it, null when no unit of the table is accepted
matchUnit(rest, sorted) ==
    firstUnit(rest, sorted,
              {i \in 1..Len(sorted) : unitAccepted(rest, sorted[i].name)})

volumeOrWeight(v, w) ==
    IF v # null
    THEN [unit |-> v.unit, unitType |-> "volume", remaining |-> v.remaining]
    ELSE IF w # null
    THEN [unit |-> w.unit, unitType |-> "weight", remaining |-> w.remaining]
    ELSE null

\* The volume table, then the weight table
matchAnyUnit(rest) ==
    volumeOrWeight(matchUnit(rest, SortedVolumeUnits),
                   matchUnit(rest, SortedWeightUnits))

\* The pair of a quantity and the unit match m after it
pairOf(quantityResult, m) ==
    IF m = null THEN null
    ELSE [quantity |-> quantityResult.quantity, unit |-> m.unit,
          unitType |-> m.unitType, remaining |-> m.remaining]

pairWithUnit(quantityResult, rest) ==
    IF rest = <<>> THEN null ELSE pairOf(quantityResult, matchAnyUnit(rest))

pairAfter(text, quantityResult) ==
    IF quantityResult = null THEN null
    ELSE pairWithUnit(quantityResult,
                      Trim(Drop(text, quantityResult.consumed)))

parseQuantityUnitPair(text0) ==
    IF Trim(text0) = <<>> THEN null
    ELSE pairAfter(Trim(text0), extractQuantity(Trim(text0)))

\* line.toLowerCase().match(/^(preparation|instructions|directions|method|
\* steps?|serves|yield|prep| cook)/i)
HeaderWords ==
    { <<"p", "r", "e", "p", "a", "r", "a", "t", "i", "o", "n">>,
      <<"i", "n", "s", "t", "r", "u", "c", "t", "i", "o", "n", "s">>,
      <<"d", "i", "r", "e", "c", "t", "i", "o", "n", "s">>,
      <<"m", "e", "t", "h", "o", "d">>,
      <<"s", "t", "e", "p">>,
      <<"s", "e", "r", "v", "e", "s">>,
      <<"y", "i", "e", "l", "d">>,
      <<"p", "r", "e", "p">>,
      <<" ", "c", "o", "o", "k">> }

isHeaderLine(line) == \E w \in HeaderWords : startsWith(toLowerCase(line), w)

\* The loop over parts[1..] of a "+" line: the pairs that parse, in order,
\* up to the first part that does not, and the text taken as the name
RECURSIVE collectPairs(_, _, _, _)
RECURSIVE nextPair(_, _, _, _, _)
nextPair(parts, i, allPairs, part, pair) ==
    IF pair # null
    THEN collectPairs(parts, i + 1, Append(allPairs, pair), pair.remaining)
    ELSE [allPairs |-> allPairs, remainingText |-> part]

collectPairs(parts, i, allPairs, remainingText) ==
    IF i > Len(parts)
    THEN [allPairs |-> allPairs, remainingText |-> remainingText]
    ELSE nextPair(parts, i, allPairs, Trim(parts[i]),
                  parseQuantityUnitPair(Trim(parts[i])))

RECURSIVE sumBase(_)
sumBase(pairs) ==
    IF pairs = <<>> THEN Num(0)
    ELSE RAdd(convertToBaseUnit(pairs[1].quantity, pairs[1].unit,
                                pairs[1].unitType).value,
              sumBase(Tail(pairs)))

allSameType(allPairs) ==
    /\ \A k \in 1..Len(allPairs) : allPairs[k].unitType = allPairs[1].unitType
    /\ allPairs[1].unitType # "count"

\* The collected pairs when they take the combined branch, else null
acceptedPairs(got) ==
    IF allSameType(got.allPairs) /\ Len(got.allPairs) > 1 THEN got ELSE null

pairsAfter(parts, firstPair) ==
    IF firstPair = null THEN null
    ELSE acceptedPairs(collectPairs(parts, 2, <<firstPair>>,
                                    Trim(join(Tail(parts), <<"+">>))))

\* The pairs of a "+" line when the combined branch applies, else null
combinedPairs(line) ==
    IF ~includes(line, <<"+">>) THEN null
    ELSE pairsAfter(split(line, "+"),
                    parseQuantityUnitPair(Trim(split(line, "+")[1])))

\* The text the combined branch takes the ingredient name from
nameText(got) ==
    IF got.remainingText # <<>> THEN got.remainingText
    ELSE got.allPairs[Len(got.allPairs)].remaining

combinedResult(line, allPairs, d) ==
    [quantity |-> sumBase(allPairs),
     unit |-> IF allPairs[1].unitType = "volume" THEN ML ELSE G,
     unitType |-> allPairs[1].unitType,
     ingredient |-> d.ingredientName,
     notes |-> d.notes,
     originalLine |-> line,
     isCombined |-> TRUE,
     originalPairs |-> [k \in 1..Len(allPairs) |->
                           [quantity |-> allPairs[k].quantity,
                            unit |-> allPairs[k].unit]]]

\* The result of the combined branch
combinedIngredient(line, got) ==
    combinedResult(line, got.allPairs, dashSplit(nameText(got)))

singleResult(quantity, unit, unitType, line, sp) ==
    [quantity |-> quantity, unit |-> unit, unitType |-> unitType,
     ingredient |-> sp.ingredientName, notes |-> sp.notes,
     originalLine |-> line, isCombined |-> FALSE, originalPairs |-> <<>>]

splitDashed(d) == splitPrepWordsFromName(d.ingredientName, d.notes)

\* A result of the single-measurement path
singleIngredient(quantity, unit, unitType, text, line) ==
    singleResult(quantity, unit, unitType, line, splitDashed(dashSplit(text)))

\* The quantity, the unit and the name text of the three results of the
\* single-measurement path: no quantity, a unit, no unit
singleParts(line, quantityResult, rest, m) ==
    IF quantityResult = null
    THEN [quantity |-> Num(1), unit |-> <<>>, unitType |-> "count",
          text |-> line]
    ELSE IF m # null
    THEN [quantity |-> quantityResult.quantity, unit |-> m.unit,
          unitType |-> m.unitType, text |-> m.remaining]
    ELSE [quantity |-> quantityResult.quantity, unit |-> <<>>,
          unitType |-> "count", text |-> rest]

singleOf(line, found) ==
    singleIngredient(found.quantity, found.unit, found.unitType, found.text,
                     line)

singleAfter(line, quantityResult, rest) ==
    IF quantityResult # null /\ rest = <<>> THEN null
    ELSE singleOf(line, singleParts(line, quantityResult, rest,
                                    matchAnyUnit(rest)))

\* The single-measurement path of parseIngredientLine
parseSingle(line) ==
    singleAfter(line, extractQuantity(line),
                Trim(Drop(line, extractQuantity(line).consumed)))

combinedOrSingle(line, got) ==
    IF line = <<>> THEN null
    ELSE IF isHeaderLine(line) THEN null
    ELSE IF got # null THEN combinedIngredient(line, got)
    ELSE parseSingle(line)

\* parseIngredientLine(line): a ParsedIngredient or null.  The fields
\* isCombined and originalPairs, absent from a single-measurement result in
\* the code, are FALSE and empty here.
parseIngredientLine(line0) ==
    combinedOrSingle(Trim(line0), combinedPairs(Trim(line0)))

keepIngredient(parsed, rest) ==
    IF parsed # null /\ parsed.ingredient # <<>>
    THEN <<parsed>> \o rest
    ELSE rest

\* parseRecipe(recipeText): the parsed lines that have an ingredient name
RECURSIVE parseLines(_)
parseLines(lines) ==
    IF lines = <<>> THEN <<>>
    ELSE keepIngredient(parseIngredientLine(lines[1]),
                        parseLines(Tail(lines)))

parseRecipe(recipeText) ==
    IF Trim(recipeText) = <<>> THEN <<>>
    ELSE parseLines(split(recipeText, "\n"))

-----------------------------------------------------------------------------
(* Display formatting (toFraction, formatQuantity) *)

\* An absent property (JavaScript undefined)
undefined == [isUndefined |-> TRUE]

\* A string where the code may also hold a number
Str(s) == [str |-> s]

isString(v) == "str" \in DOMAIN v

\* String(n) for an integer n
RECURSIVE natToString(_)
natToString(n) ==
    LET d == <<"0", "1", "2", "3", "4", "5", "6", "7", "8", "9">>[(n % 10) + 1]
    IN  IF n < 10 THEN <<d>> ELSE Append(natToString(n \div 10), d)

intToString(n) == IF n < 0 THEN <<"-">> \o natToString(-n) ELSE natToString(n)

\* The digits after the decimal point of a terminating decimal 0 <= f < 1
RECURSIVE fractionDigits(_)
fractionDigits(f) ==
    IF f.n = 0 THEN <<>>
    ELSE LET t == RMul(f, Num(10))
         IN  natToString(Floor(t)) \o fractionDigits(RSub(t, Num(Floor(t))))

\* String(x), as a template literal writes a number (terminating decimals)
digitsOf(negative, whole, f) ==
    (IF negative THEN <<"-">> ELSE <<>>) \o natToString(whole)
    \o (IF f.n = 0 THEN <<>> ELSE <<".">> \o fractionDigits(f))

numberToString(x) ==
    digitsOf(x.n < 0, Floor(RAbs(x)), RSub(RAbs(x), Num(Floor(RAbs(x)))))

tolerance == Rat(15, 1000)

fractions ==
    << [val |-> Rat(125, 1000), str |-> <<"1", "/", "8">>],
       [val |-> Rat(167, 1000), str |-> <<"1", "/", "6">>],
       [val |-> Rat(2, 10),     str |-> <<"1", "/", "5">>],
       [val |-> Rat(25, 100),   str |-> <<"1", "/", "4">>],
       [val |-> Rat(333, 1000), str |-> <<"1", "/", "3">>],
       [val |-> Rat(375, 1000), str |-> <<"3", "/", "8">>],
       [val |-> Rat(4, 10),     str |-> <<"2", "/", "5">>],
       [val |-> Rat(5, 10),     str |-> <<"1", "/", "2">>],
       [val |-> Rat(6, 10),     str |-> <<"3", "/", "5">>],
       [val |-> Rat(625, 1000), str |-> <<"5", "/", "8">>],
       [val |-> Rat(667, 1000), str |-> <<"2", "/", "3">>],
       [val |-> Rat(75, 100),   str |-> <<"3", "/", "4">>],
       [val |-> Rat(8, 10),     str |-> <<"4", "/", "5">>],
       [val |-> Rat(833, 1000), str |-> <<"5", "/", "6">>],
       [val |-> Rat(875, 1000), str |-> <<"7", "/", "8">>] >>

\* The fractions of the table within the tolerance of a decimal
closeFractions(decimal) ==
    {k \in 1..Len(fractions) :
        RLt(RAbs(RSub(decimal, fractions[k].val)), tolerance)}

\* The first of them as a string, else the decimal rounded to two places
firstFraction(decimal, hits) ==
    IF hits # {}
    THEN Str(fractions[CHOOSE k \in hits : \A j \in hits : k <= j].str)
    ELSE Round2(decimal)

\* The decimal rounded to two places, never a fraction
neverFraction(decimal) == Round2(decimal)

\* toFraction(decimal): the first table fraction within the tolerance as a
\* string, else the decimal rounded to two places
toFraction(decimal) ==
    IF decimal = null \/ decimal = undefined \/ isNaN(decimal) THEN decimal
    ELSE firstFraction(decimal, closeFractions(decimal))

\* The result of formatQuantity from the whole part, the decimal part and
\* the fraction found for the decimal part
formatParts(qty, wholePart, decimalPart, frac) ==
    IF RLt(Rat(1, 100), decimalPart)
    THEN IF isString(frac) /\ includes(frac.str, <<"/">>)
         THEN IF wholePart > 0
              THEN Str(intToString(wholePart) \o <<" ">> \o frac.str)
              ELSE frac
         ELSE Round2(qty)
    ELSE IF wholePart # 0 THEN Num(wholePart) ELSE Num(Round(qty))

\* formatQuantity(qty): a number or a string such as "1 1/2"
formatQuantity(qty) ==
    IF qty = null \/ qty = undefined \/ isNaN(qty) THEN qty
    ELSE formatParts(qty, Floor(qty), RSub(qty, Num(Floor(qty))),
                     toFraction(RSub(qty, Num(Floor(qty)))))

-----------------------------------------------------------------------------
(* convertToPreferredUnitSystem *)

CUP         == <<"c", "u", "p">>
CUPS        == <<"c", "u", "p", "s">>
TABLESPOON  == <<"t", "a", "b", "l", "e", "s", "p", "o", "o", "n">>
TABLESPOONS == <<"t", "a", "b", "l", "e", "s", "p", "o", "o", "n", "s">>
TEASPOON    == <<"t", "e", "a", "s", "p", "o", "o", "n">>
TEASPOONS   == <<"t", "e", "a", "s", "p", "o", "o", "n", "s">>
FLUID_OUNCE == <<"f", "l", "u", "i", "d", " ", "o", "u", "n", "c", "e">>
OUNCE       == <<"o", "u", "n", "c", "e">>
OUNCES      == <<"o", "u", "n", "c", "e", "s">>
POUND       == <<"p", "o", "u", "n", "d">>
POUNDS      == <<"p", "o", "u", "n", "d", "s">>

converted(value, unit, displayQuantity, displayUnit, flOz) ==
    [value |-> value, unit |-> unit, displayQuantity |-> displayQuantity,
     displayUnit |-> displayUnit, flOz |-> flOz]

\* A value in the unit chosen for it: the quantity is formatted and the
\* unit name is the singular one for exactly 1
inUnit(value, unit, singular, plural, flOz) ==
    converted(value, unit, formatQuantity(value),
              IF value = Num(1) THEN singular ELSE plural, flOz)

\* The volume in cups whatever its size
alwaysCups(cup, tbsp, tsp) ==
    [value |-> cup, unit |-> CUP, plural |-> CUPS]

\* The imperial branch for volume: cups from 1/8 cup, tablespoons from 1/2
\* tablespoon, else teaspoons
imperialVolume(cup, tbsp, tsp) ==
    IF RLe(Rat(125, 1000), cup) THEN [value |-> cup, unit |-> CUP,
                                      plural |-> CUPS]
    ELSE IF RLe(Rat(5, 10), tbsp) THEN [value |-> tbsp, unit |-> TABLESPOON,
                                        plural |-> TABLESPOONS]
    ELSE [value |-> tsp, unit |-> TEASPOON, plural |-> TEASPOONS]

\* The pounds of a weight under the name of ounces
poundsAsOunces(oz, lbs) ==
    IF RLe(Num(16), oz) THEN [value |-> lbs, unit |-> OUNCE,
                              plural |-> OUNCES]
    ELSE [value |-> oz, unit |-> OUNCE, plural |-> OUNCES]

\* The imperial branch for weight: pounds from 16 ounces
imperialWeight(oz, lbs) ==
    IF RLe(Num(16), oz) THEN [value |-> lbs, unit |-> POUND,
                              plural |-> POUNDS]
    ELSE [value |-> oz, unit |-> OUNCE, plural |-> OUNCES]

\* The value and unit chosen for a measured base value, and its fluid
\* ounces (volume in the imperial system only)
chosenUnit(baseValue, unitType, system) ==
    IF system = "metric"
    THEN [c |-> [value |-> baseValue,
                 unit |-> IF unitType = "volume" THEN ML ELSE G,
                 plural |-> IF unitType = "volume" THEN ML ELSE G],
          flOz |-> null]
    ELSE IF unitType = "volume"
    THEN [c |-> imperialVolume(
                    RDiv(baseValue, Lookup(UNIT_CONVERSIONS("volume"), CUP)),
                    RDiv(baseValue,
                         Lookup(UNIT_CONVERSIONS("volume"), TABLESPOON)),
                    RDiv(baseValue,
                         Lookup(UNIT_CONVERSIONS("volume"), TEASPOON))),
          flOz |-> Round2(RDiv(baseValue,
                               Lookup(UNIT_CONVERSIONS("volume"),
                                      FLUID_OUNCE)))]
    ELSE [c |-> imperialWeight(
                    RDiv(baseValue, Lookup(UNIT_CONVERSIONS("weight"), OUNCE)),
                    RDiv(RDiv(baseValue,
                              Lookup(UNIT_CONVERSIONS("weight"), OUNCE)),
                         Num(16))),
          flOz |-> null]

inChosenUnit(chosen) ==
    inUnit(chosen.c.value, chosen.c.unit, chosen.c.unit, chosen.c.plural,
           chosen.flOz)

\* convertToPreferredUnitSystem(baseValue, unitType), reading the global
\* unitSystem (here the third argument)
convertToPreferredUnitSystem(baseValue, unitType, system) ==
    IF unitType = "count"
    THEN converted(baseValue, COUNT, baseValue, <<>>, null)
    ELSE inChosenUnit(chosenUnit(baseValue, unitType, system))

-----------------------------------------------------------------------------
(* parseFloat, parseFraction *)

\* parseFloat(s): an optional sign, digits and an optional fraction at the
\* start of s, after leading whitespace; NaN when there is no digit.
\* Exponents and "Infinity" are not modelled.
parseFloat(s) ==
    LET t == Drop(s, SpaceRun(s))
        neg == t # <<>> /\ t[1] = "-"
        u == IF t # <<>> /\ t[1] \in {"-", "+"} THEN Tail(t) ELSE t
        i == DigitRun(u)
        afterInt == Drop(u, i)
        f == IF afterInt # <<>> /\ afterInt[1] = "."
             THEN DigitRun(Tail(afterInt)) ELSE 0
        value == ParseDecimal(Take(u, i), SubSeq(afterInt, 2, f + 1))
    IN  IF i = 0 /\ f = 0 THEN NaN
        ELSE IF neg THEN RSub(Num(0), value) ELSE value

\* /^(\d+)\/(\d+)$/: the two digit runs of "a/b", or null
simpleFractionMatch(s) ==
    LET a == DigitRun(s)
        r == Drop(s, a)
        b == IF r # <<>> /\ r[1] = "/" THEN DigitRun(Tail(r)) ELSE 0
    IN  IF a > 0 /\ b > 0 /\ a + 1 + b = Len(s)
        THEN [num |-> ParseNat(Take(s, a)), den |-> ParseNat(Drop(s, a + 1))]
        ELSE null

\* /^(\d+)\s+(\d+)\/(\d+)$/: whole, numerator and denominator, or null
mixedNumberMatch(s) ==
    LET w == DigitRun(s)
        sp == SpaceRun(Drop(s, w))
        m == simpleFractionMatch(Drop(s, w + sp))
    IN  IF w > 0 /\ sp > 0 /\ m # null
        THEN [whole |-> ParseNat(Take(s, w)), num |-> m.num, den |-> m.den]
        ELSE null

\* parseFraction(fractionStr): 0 for a text that is no number
parseFraction(fractionStr0) ==
    LET fractionStr == Trim(fractionStr0)
        mixed == mixedNumberMatch(fractionStr)
        frac == simpleFractionMatch(fractionStr)
        decimal == parseFloat(fractionStr)
    IN  IF fractionStr0 = <<>> THEN Num(0)
        ELSE IF mixed # null /\ mixed.den # 0
        THEN RAdd(Num(mixed.whole), Rat(mixed.num, mixed.den))
        ELSE IF frac # null /\ frac.den # 0 THEN Rat(frac.num, frac.den)
        ELSE IF ~isNaN(decimal) THEN decimal
        ELSE Num(0)

\* value.split(/\s+/) of a trimmed, non-empty text
RECURSIVE splitWhitespace(_)
splitWhitespace(s) ==
    LET word == CHOOSE k \in 0..Len(s) :
                    /\ \A j \in 1..k : ~IsSpace(s[j])
                    /\ (k = Len(s) \/ IsSpace(s[k + 1]))
        rest == Drop(s, word)
    IN  IF rest = <<>> THEN <<Take(s, word)>>
        ELSE <<Take(s, word)>> \o splitWhitespace(Drop(rest, SpaceRun(rest)))

-----------------------------------------------------------------------------
(* The inputs of the operations *)

\* What the user types into the recipe form: a name and the recipe text
RecipeForms ==
    { [name |-> <<"P", "a", "n", "c", "a", "k", "e", "s">>,
       text |-> <<"2", " ", "c", "u", "p", "s", " ", "f", "l", "o", "u", "r",
                "\n", "1", " ", "o", "n", "i", "o", "n", "\n", "1", " ", "c",
                "u", "p", " ", "b", "u", "t", "t", "e", "r">>],
      [name |-> <<"S", "a", "u", "c", "e">>,
       text |-> <<"1", "/", "2", " ", "c", "u", "p", " ", "o", "n", "i", "o",
                "n", "\n", "1", " ", "o", "n", "i", "o", "n", "\n", "1", "0",
                "0", " ", "g", " ", "b", "u", "t", "t", "e", "r", "\n", "1",
                " ", "T", "B", " ", "o", "i", "l">>],
      [name |-> <<>>,
       text |-> <<"S", "e", "r", "v", "e", "s", " ", "4">>] }

\* What the user types into a multiplier field
MultiplierInputs == { <<"0">>, <<"2">>, <<"-", "1">>, <<"a", "b", "c">> }

\* What the user types into a cell of the review table: the row (from 0),
\* the field and the text
InlineEdits ==
    { [index |-> 1, field |-> "quantity",
       value |-> <<"2", " ", "b", "u", "l", "b", "s">>],
      [index |-> 2, field |-> "ingredient",
       value |-> <<"s", "a", "l", "t", "e", "d", " ", "b", "u", "t", "t", "e",
                   "r">>] }

\* The files the user imports: the parsed JSON of a file, or null for a
\* file that is not JSON.  An array read from JSON is [array |-> ...]; the
\* second entry of the file has no name, the third no ingredients array.
ImportFiles ==
    { [json |-> << [name |-> <<"S", "o", "u", "p">>,
                    ingredients |->
                        [array |->
                          << [quantity |-> Num(3), unit |-> <<>>,
                              unitType |-> "count",
                              ingredient |-> <<"o", "n", "i", "o", "n">>,
                              notes |-> <<>>,
                              originalLine |->
                                  <<"3", " ", "o", "n", "i", "o", "n">>,
                              isCombined |-> FALSE,
                              originalPairs |-> <<>>] >>]],
                   [name |-> <<>>, ingredients |-> [array |-> <<>>]],
                   [name |-> <<"N", "o", "t", "e", "s">>,
                    ingredients |-> undefined] >>],
      null }

\* The values Math.random() returns
RandomValues == { Rat(1, 2) }

\* The units systems of the selector
UnitSystems == { "imperial", "metric" }

\* Date.now() is read at most this many times
MaxClock == 2

\* The user edits at most this many cells of review tables
MaxInlineEdits == 1

\* parseRecipe on the texts of the forms and normalizeIngredientName on the
\* ingredient names the inputs hold, computed once
FormTexts == {Trim(aForm.text) : aForm \in RecipeForms}

\* A table of the values of a function is the set of its <<argument,
\* value>> pairs; valueAt reads the value of an argument
valueAt(table, argument) ==
    (CHOOSE tabled \in table : tabled[1] = argument)[2]

\* parseRecipe on the texts of the forms, computed once
ParsedForms == {<<aText, parseRecipe(aText)>> : aText \in FormTexts}

parseRecipeOnce(recipeText) == valueAt(ParsedForms, recipeText)

\* The ingredient names the inputs lead to: those of the recipes the forms
\* parse to, of the cells edited and of the files imported
KnownNames ==
    { <<"f", "l", "o", "u", "r">>,
      <<"o", "n", "i", "o", "n">>,
      <<"b", "u", "t", "t", "e", "r">>,
      <<"o", "i", "l">>,
      <<"s", "a", "l", "t", "e", "d", " ", "b", "u", "t", "t", "e", "r">> }

\* normalizeIngredientName on these names, computed once
NormalizedNames ==
    {<<aName, normalizeIngredientName(aName)>> : aName \in KnownNames}

normalizeOnce(name) == valueAt(NormalizedNames, name)

\* parseFloat on the texts of the multiplier input, computed once
ParsedMultipliers ==
    {<<aText, parseFloat(aText)>> : aText \in MultiplierInputs}

parseFloatOnce(multiplier) == valueAt(ParsedMultipliers, multiplier)

\* What finishIngredientInlineEdit reads from the text of a cell: the
\* trimmed value and, for a quantity cell, the parts value.split(/\s+/),
\* the quantity parseFraction(parts[0]) and the unit parts.slice(1).join(' ')
readCell(input) ==
    [value |-> Trim(input),
     parsedQty |-> IF Trim(input) = <<>> THEN NaN
                   ELSE parseFraction(splitWhitespace(Trim(input))[1]),
     unitStr |-> IF Trim(input) = <<>> THEN <<>>
                 ELSE Trim(join(Tail(splitWhitespace(Trim(input))),
                                <<" ">>))]

\* readCell on the texts of the cells, computed once
ReadCells ==
    {<<anEdit.value, readCell(anEdit.value)>> : anEdit \in InlineEdits}

readCellOnce(input) == valueAt(ReadCells, input)

-----------------------------------------------------------------------------
(* consolidateIngredients *)

\* x || y on numbers: y when x is 0, NaN or null
orNumber(x, y) == IF x = null \/ isNaN(x) \/ x.n = 0 THEN y ELSE x

\* x || y on texts: y when x is empty or null
orText(x, y) == IF x = <<>> THEN y ELSE x

\* null * multiplier is 0
toNumber(q) == IF q = null THEN Num(0) ELSE q

\* recipeMultipliers[id] || 1
multiplierOf(multipliers, id) ==
    IF id \in DOMAIN multipliers THEN orNumber(multipliers[id], Num(1))
    ELSE Num(1)

\* multiplier > 1 ? `${recipe.name} (x${multiplier})` : recipe.name
recipeLabel(recipe, multiplier) ==
    IF RLt(Num(1), multiplier)
    THEN recipe.name \o <<" ", "(", "{x}">> \o numberToString(multiplier)
         \o <<")">>
    ELSE recipe.name

\* The position of the entry stored under a key, 0 when there is none
entryIndex(entries, key) ==
    IF \E i \in 1..Len(entries) : entries[i].name = key
    THEN CHOOSE i \in 1..Len(entries) : entries[i].name = key
    ELSE 0

\* The entry made for a name that has none yet
freshEntry(normalizedName, ingredient) ==
    [name |-> normalizedName,
     originalName |-> ingredient.ingredient,
     quantities |-> <<>>, sources |-> <<>>,
     displayQuantity |-> undefined, displayUnit |-> undefined,
     displayUnitType |-> undefined, flOz |-> undefined,
     groupedQuantities |-> undefined]

\* The quantity pushed for a contribution
quantityEntry(base, multipliedQuantity, originalUnit) ==
    [value |-> base.value, unit |-> base.unit, unitType |-> base.unitType,
     originalQuantity |-> multipliedQuantity, originalUnit |-> originalUnit]

\* The quantity and the source pushed on the entry at a position, the entry
\* being made first when the position is 0
pushContribution(entries, at, fresh, q, label) ==
    IF at = 0
    THEN Append(entries, [fresh EXCEPT !.quantities = <<q>>,
                                       !.sources = <<label>>])
    ELSE [entries EXCEPT ![at].quantities = Append(@, q),
                         ![at].sources = Append(@, label)]

contribution(entries, normalizedName, ingredient, multipliedQuantity,
             label) ==
    pushContribution(entries, entryIndex(entries, normalizedName),
                     freshEntry(normalizedName, ingredient),
                     quantityEntry(convertToBaseUnit(multipliedQuantity,
                                                     ingredient.unit,
                                                     ingredient.unitType),
                                   multipliedQuantity, ingredient.unit),
                     label)

\* One ingredient of an active recipe added to the map (the body of the
\* inner loop of the first pass)
addContribution(entries, recipe, multiplier, ingredient) ==
    contribution(entries, normalizeOnce(ingredient.ingredient), ingredient,
                 RMul(toNumber(ingredient.quantity), multiplier),
                 recipeLabel(recipe, multiplier))

RECURSIVE addIngredients(_, _, _, _)
addIngredients(entries, recipe, multiplier, ingredients) ==
    IF ingredients = <<>> THEN entries
    ELSE addIngredients(addContribution(entries, recipe, multiplier,
                                        ingredients[1]),
                        recipe, multiplier, Tail(ingredients))

\* The first pass: the contributions of the active recipes, in list order
RECURSIVE collect(_, _, _, _)
collect(entries, rs, active, multipliers) ==
    IF rs = <<>> THEN entries
    ELSE IF rs[1].id \in active
    THEN collect(addIngredients(entries, rs[1],
                                multiplierOf(multipliers, rs[1].id),
                                rs[1].ingredients),
                 Tail(rs), active, multipliers)
    ELSE collect(entries, Tail(rs), active, multipliers)

\* byUnit: the quantities of one entry grouped by original unit, in the
\* order in which the keys were first seen
unitKeyOf(q) == orText(q.originalUnit, q.unit)

RECURSIVE byUnit(_, _)
byUnit(groups, quantities) ==
    IF quantities = <<>> THEN groups
    ELSE LET q == quantities[1]
             hit == {i \in 1..Len(groups) : groups[i].key = unitKeyOf(q)}
             at == IF hit = {} THEN Len(groups) + 1 ELSE CHOOSE i \in hit : TRUE
             all == IF hit = {}
                    THEN Append(groups, [key |-> unitKeyOf(q),
                                         unit |-> unitKeyOf(q),
                                         unitType |-> q.unitType,
                                         quantities |-> <<>>])
                    ELSE groups
         IN  byUnit([all EXCEPT ![at].quantities = Append(@, q)],
                    Tail(quantities))

\* group.quantities.reduce((sum, q) => sum + (q.originalQuantity || q.value), 0)
RECURSIVE countSum(_)
countSum(quantities) ==
    IF quantities = <<>> THEN Num(0)
    ELSE RAdd(orNumber(quantities[1].originalQuantity, quantities[1].value),
              countSum(Tail(quantities)))

\* The sum of the base values of the quantities of a measured group
RECURSIVE measuredSum(_, _)
measuredSum(quantities, unitType) ==
    IF quantities = <<>> THEN Num(0)
    ELSE RAdd(convertToBaseUnit(orNumber(quantities[1].originalQuantity,
                                         quantities[1].value),
                                orText(quantities[1].originalUnit,
                                       quantities[1].unit),
                                unitType).value,
              measuredSum(Tail(quantities), unitType))

\* One step of the loop over the groups of an entry
countGroup(acc, group) ==
    [acc EXCEPT !.hasCount = TRUE,
                !.countValue = countSum(group.quantities),
                !.countUnit = group.unit]

measuredGroup(acc, group) ==
    [acc EXCEPT !.totalBaseValue =
                    RAdd(@, measuredSum(group.quantities, group.unitType)),
                !.itemUnitType =
                    IF @ = "" THEN group.unitType ELSE @]

RECURSIVE sumGroups(_, _)
sumGroups(acc, groups) ==
    IF groups = <<>> THEN acc
    ELSE sumGroups(IF groups[1].unitType = "count" \/ groups[1].unit = <<>>
                   THEN countGroup(acc, groups[1])
                   ELSE measuredGroup(acc, groups[1]),
                   Tail(groups))

\* The totals before the loop over the groups
noTotals ==
    [totalBaseValue |-> Num(0), itemUnitType |-> "", hasCount |-> FALSE,
     countValue |-> Num(0), countUnit |-> <<>>]

\* The display fields of a measured total
measuredEntry(item, acc, conv) ==
    [item EXCEPT !.displayQuantity = conv.displayQuantity,
                 !.displayUnit = conv.displayUnit,
                 !.displayUnitType = acc.itemUnitType,
                 !.flOz = conv.flOz]

\* The entry once the measured total is shown: a count total beside a
\* measured one makes groupedQuantities, a count total alone is displayed
countEntry(shown, acc) ==
    IF ~acc.hasCount THEN shown
    ELSE IF RLt(Num(0), acc.totalBaseValue)
    THEN [shown EXCEPT
            !.groupedQuantities =
                << [displayQuantity |-> shown.displayQuantity,
                    displayUnit |-> shown.displayUnit,
                    unitType |-> acc.itemUnitType,
                    flOz |-> shown.flOz],
                   [displayQuantity |-> acc.countValue,
                    displayUnit |-> acc.countUnit,
                    unitType |-> "count",
                    flOz |-> null] >>,
            !.displayQuantity = undefined,
            !.displayUnit = undefined]
    ELSE [shown EXCEPT !.displayQuantity = acc.countValue,
                       !.displayUnit = acc.countUnit,
                       !.displayUnitType = "count",
                       !.flOz = null]

displayTotals(item, acc, system) ==
    IF acc.itemUnitType # "" /\ RLt(Num(0), acc.totalBaseValue)
    THEN countEntry(
             measuredEntry(item, acc,
                           convertToPreferredUnitSystem(acc.totalBaseValue,
                                                        acc.itemUnitType,
                                                        system)),
             acc)
    ELSE countEntry(item, acc)

\* The second pass on one entry: its display fields
displayEntry(item, system) ==
    IF item.quantities = <<>> THEN item
    ELSE displayTotals(item,
                       sumGroups(noTotals, byUnit(<<>>, item.quantities)),
                       system)

\* The pass without its first statement: the earlier entries are kept
keepEntries(previous) == previous

\* consolidatedIngredients = {}: the pass starts from an empty object,
\* whatever the entries of the previous pass
resetEntries(previous) == <<>>

\* The second pass over the entries
displayAll(entries, system) ==
    [i \in 1..Len(entries) |-> displayEntry(entries[i], system)]

\* consolidateIngredients(): the new value of consolidatedIngredients, an
\* object whose entries are kept in insertion order.  The function reads the
\* globals: the previous entries, recipes, activeRecipeIds,
\* recipeMultipliers and unitSystem.
consolidateIngredients(previous, rs, active, multipliers, system) ==
    displayAll(collect(resetEntries(previous), rs, active, multipliers),
               system)

-----------------------------------------------------------------------------
(* The application state *)

VARIABLES
    recipes,                     \* the recipe list, in insertion order
    consolidatedIngredients,     \* the shopping list entries
    activeRecipeIds,             \* the set of ids of the active recipes
    recipeMultipliers,           \* id -> multiplier, on the ids that have one
    unitSystem,                  \* "imperial" or "metric"
    pendingRecipeForReview,      \* the recipe under review, or null
    pendingIngredientsForReview, \* its rows as [array |-> rows], or null
    reviewModalOpen,             \* the review modal is shown over the page
    editingRecipeId,             \* parseFloat of the form field editingRecipeId
    preloading,                  \* where each loadPreloadedRecipes call waits
    localStorage,                \* the browser's store, one field per key
    now,                         \* the last value Date.now() returned
    inlineEdits,                 \* the number of cells edited so far
    errorMessage,                \* the error the last operation showed, or ""
    shoppingListSortOrder,       \* "alphabetical" or "category"
    parseInput,                  \* the text given to the parser
    parseOutput                  \* what the parser returned for it

appVars == <<recipes, consolidatedIngredients, activeRecipeIds,
             recipeMultipliers, unitSystem, pendingRecipeForReview,
             pendingIngredientsForReview, reviewModalOpen, editingRecipeId,
             preloading, localStorage, now, inlineEdits, errorMessage,
             shoppingListSortOrder>>

parseVars == <<parseInput, parseOutput>>

vars == <<recipes, consolidatedIngredients, activeRecipeIds,
          recipeMultipliers, unitSystem, pendingRecipeForReview,
          pendingIngredientsForReview, reviewModalOpen, editingRecipeId,
          preloading, localStorage, now, inlineEdits, errorMessage,
          shoppingListSortOrder, parseInput, parseOutput>>

\* JSON.stringify(value) as stored under a key, and JSON.parse of it.  The
\* values stored here (numbers, texts, arrays, records without undefined
\* fields) are written and read back unchanged.
stringify(value) == [json |-> value]

isJSON(item) == "json" \in DOMAIN item

STORAGE_KEY == "recipes"
ACTIVE_KEY == "activeRecipes"
MULTIPLIERS_KEY == "multipliers"
UNIT_SYSTEM_KEY == "unitSystem"
SHOPPING_LIST_SORT_KEY == "shoppingListSort"

emptyStorage ==
    [recipes |-> null, activeRecipes |-> null, multipliers |-> null,
     unitSystem |-> null, shoppingListSort |-> null]

\* saveRecipes(), saveActiveRecipes(), saveRecipeMultipliers()
saveRecipes(store, rs) == [store EXCEPT !.recipes = stringify(rs)]

saveActiveRecipes(store, active) ==
    [store EXCEPT !.activeRecipes = stringify(active)]

saveRecipeMultipliers(store, multipliers) ==
    [store EXCEPT !.multipliers = stringify(multipliers)]

\* The ids of the recipes of a list
recipeIds(rs) == {rs[i].id : i \in 1..Len(rs)}

\* recipes.filter(r => r.id !== recipeId)
RECURSIVE withoutId(_, _)
withoutId(rs, recipeId) ==
    IF rs = <<>> THEN <<>>
    ELSE IF rs[1].id = recipeId THEN withoutId(Tail(rs), recipeId)
    ELSE <<rs[1]>> \o withoutId(Tail(rs), recipeId)

\* recipes.find(r => r.id === id): the position of the first such recipe, or 0
findRecipe(rs, id) ==
    IF \E i \in 1..Len(rs) : rs[i].id = id
    THEN CHOOSE i \in 1..Len(rs) :
             rs[i].id = id /\ \A j \in 1..(i - 1) : rs[j].id # id
    ELSE 0

\* delete multipliers[id]
deleteKey(multipliers, id) ==
    [k \in DOMAIN multipliers \ {id} |-> multipliers[k]]

\* multipliers[id] = value
setKey(multipliers, id, value) ==
    [k \in DOMAIN multipliers \cup {id} |->
        IF k = id THEN value ELSE multipliers[k]]

\* The check of a missing multiplier left out
neverMissing(multipliers, id) == FALSE

\* !multipliers[id]
hasNoMultiplier(multipliers, id) ==
    id \notin DOMAIN multipliers \/ orNumber(multipliers[id], null) = null

\* for (const id of active) if (!multipliers[id]) multipliers[id] = 1
defaultMultipliers(multipliers, active) ==
    [k \in DOMAIN multipliers \cup active |->
        IF k \in active /\ hasNoMultiplier(multipliers, k) THEN Num(1)
        ELSE multipliers[k]]

noMultipliers == [k \in {} |-> Num(1)]

-----------------------------------------------------------------------------
(* The operations.  While the review modal is open it covers the page, so *)
(* the operations of the page wait for the review to be confirmed or      *)
(* cancelled.                                                             *)

\* The loadPreloadedRecipes calls that may be under way at once
PreloadCalls == 1..2

\* A call that is not under way, one waiting at await fetch(...), and one
\* waiting at await response.json() with the response it got
idle == [at |-> "idle"]
awaitingFetch == [at |-> "fetch"]
awaitingJson(response) == [at |-> "json", response |-> response]

noPreloading == [call \in PreloadCalls |-> idle]

Init ==
    /\ recipes = <<>>
    /\ consolidatedIngredients = <<>>
    /\ activeRecipeIds = {}
    /\ recipeMultipliers = noMultipliers
    /\ unitSystem = "imperial"
    /\ pendingRecipeForReview = null
    /\ pendingIngredientsForReview = null
    /\ reviewModalOpen = FALSE
    /\ editingRecipeId = NaN
    /\ preloading = noPreloading
    /\ localStorage = emptyStorage
    /\ now = 0
    /\ inlineEdits = 0
    /\ errorMessage = ""
    /\ shoppingListSortOrder = "alphabetical"
    /\ parseInput = <<>>
    /\ parseOutput = null

\* The tail shared by the operations that change the recipes or the active
\* set: the three saves and consolidateIngredients()
saveAll(store, rs, active, multipliers) ==
    saveRecipeMultipliers(saveActiveRecipes(saveRecipes(store, rs), active),
                          multipliers)

\* A check that lets every parse result through
neverEmpty(ingredients) == FALSE

\* ingredients.length === 0
noIngredients(ingredients) == Len(ingredients) = 0

\* addRecipe(): parse the form and open the review
addRecipe(form) ==
    LET recipeText == Trim(form.text)
        ingredients == parseRecipeOnce(recipeText)
        recipeName ==
            IF Trim(form.name) # <<>> THEN Trim(form.name)
            ELSE <<"R", "e", "c", "i", "p", "e", " ">>
                 \o natToString(Len(recipes) + 1)
    IN  /\ ~reviewModalOpen
        /\ IF recipeText = <<>>
           THEN /\ errorMessage' = "Please enter a recipe"
                /\ UNCHANGED <<pendingRecipeForReview,
                               pendingIngredientsForReview, reviewModalOpen>>
           ELSE IF noIngredients(ingredients)
           THEN /\ errorMessage' =
                       "No ingredients found in the recipe. Please check the format."
                /\ UNCHANGED <<pendingRecipeForReview,
                               pendingIngredientsForReview, reviewModalOpen>>
           ELSE /\ pendingRecipeForReview' =
                       [id |-> undefined, name |-> recipeName]
                /\ pendingIngredientsForReview' = [array |-> ingredients]
                /\ reviewModalOpen' = TRUE
                /\ errorMessage' = ""
        /\ UNCHANGED <<recipes, consolidatedIngredients, activeRecipeIds,
                       recipeMultipliers, unitSystem, localStorage, now,
                       inlineEdits, parseInput, parseOutput,
                       shoppingListSortOrder, editingRecipeId,
                       preloading>>

\* editRecipe(recipeId): open the review on copies of the recipe's rows
editRecipe(recipeId) ==
    LET at == findRecipe(recipes, recipeId)
    IN  /\ ~reviewModalOpen
        /\ IF at = 0
           THEN /\ errorMessage' = "Recipe not found"
                /\ UNCHANGED <<pendingRecipeForReview,
                               pendingIngredientsForReview, reviewModalOpen,
                               editingRecipeId>>
           ELSE /\ pendingRecipeForReview' =
                       [id |-> recipes[at].id, name |-> recipes[at].name]
                /\ pendingIngredientsForReview' =
                       [array |-> recipes[at].ingredients]
                /\ editingRecipeId' = recipes[at].id
                /\ reviewModalOpen' = TRUE
                /\ errorMessage' = ""
        /\ UNCHANGED <<recipes, consolidatedIngredients, activeRecipeIds,
                       recipeMultipliers, unitSystem, localStorage, now,
                       inlineEdits, parseInput, parseOutput,
                       shoppingListSortOrder, preloading>>

\* saveRecipeEdit(), the form holding the name and the text: the text is
\* parsed again and the review is opened on the new rows
saveRecipeEdit(form) ==
    LET recipeText == Trim(form.text)
        ingredients == parseRecipeOnce(recipeText)
        recipeName ==
            IF Trim(form.name) # <<>> THEN Trim(form.name)
            ELSE <<"R", "e", "c", "i", "p", "e", " ">>
                 \o natToString(Len(recipes) + 1)
    IN  /\ ~reviewModalOpen
        /\ IF isNaN(editingRecipeId) \/ editingRecipeId.n = 0
           THEN /\ errorMessage' = "No recipe being edited"
                /\ UNCHANGED <<pendingRecipeForReview,
                               pendingIngredientsForReview, reviewModalOpen>>
           ELSE IF recipeText = <<>>
           THEN /\ errorMessage' = "Please enter recipe text"
                /\ UNCHANGED <<pendingRecipeForReview,
                               pendingIngredientsForReview, reviewModalOpen>>
           ELSE IF noIngredients(ingredients)
           THEN /\ errorMessage' =
                       "No ingredients found in the recipe. Please check the format."
                /\ UNCHANGED <<pendingRecipeForReview,
                               pendingIngredientsForReview, reviewModalOpen>>
           ELSE /\ pendingRecipeForReview' =
                       [id |-> editingRecipeId, name |-> recipeName]
                /\ pendingIngredientsForReview' = [array |-> ingredients]
                /\ reviewModalOpen' = TRUE
                /\ errorMessage' = ""
        /\ UNCHANGED <<recipes, consolidatedIngredients, activeRecipeIds,
                       recipeMultipliers, unitSystem, localStorage, now,
                       inlineEdits, parseInput, parseOutput,
                       shoppingListSortOrder, editingRecipeId,
                       preloading>>

\* The row after finishIngredientInlineEdit on one of its fields, from what
\* was read from the cell
editedRow(ing, field, cell) ==
    IF field = "quantity"
    THEN IF cell.value # <<>> /\ ~isNaN(cell.parsedQty)
            /\ RLt(Num(0), cell.parsedQty)
         THEN [ing EXCEPT !.quantity = cell.parsedQty, !.unit = cell.unitStr]
         ELSE ing
    ELSE IF field = "ingredient"
    THEN IF cell.value # <<>> THEN [ing EXCEPT !.ingredient = cell.value]
         ELSE ing
    ELSE IF field = "preparation"
    THEN [ing EXCEPT !.notes = cell.value]
    ELSE ing

\* finishIngredientInlineEdit(index, field), the cell holding the text input
finishIngredientInlineEdit(index, field, input) ==
    /\ reviewModalOpen
    /\ pendingIngredientsForReview # null
    /\ index + 1 \in 1..Len(pendingIngredientsForReview.array)
    /\ inlineEdits < MaxInlineEdits
    /\ inlineEdits' = inlineEdits + 1
    /\ pendingIngredientsForReview' =
           [pendingIngredientsForReview EXCEPT
               !.array[index + 1] =
                   editedRow(@, field, readCellOnce(input))]
    /\ UNCHANGED <<recipes, consolidatedIngredients, activeRecipeIds,
                   recipeMultipliers, unitSystem, pendingRecipeForReview,
                   localStorage, now, errorMessage, parseInput, parseOutput,
                   shoppingListSortOrder,
                   reviewModalOpen, editingRecipeId, preloading>>

\* The recipe put at every place whatever the review was opened for
alwaysAppended(rs, at, recipe) == Append(rs, recipe)

\* The list after a review: the recipe found at place at (isEdit && recipe)
\* has its content replaced, and a recipe that was not found is pushed
reviewedRecipes(rs, at, recipe) ==
    IF at # 0 THEN [rs EXCEPT ![at] = recipe] ELSE Append(rs, recipe)

\* confirmIngredientReview(): update the recipe under review in place, or
\* append a new, active recipe with multiplier 1
confirmIngredientReview ==
    LET id == pendingRecipeForReview.id
        at == IF id = undefined THEN 0 ELSE findRecipe(recipes, id)
        isEdit == at # 0
        newId == Num(now + 1)
        recipe == [id |-> IF isEdit THEN id ELSE newId,
                   name |-> pendingRecipeForReview.name,
                   ingredients |-> pendingIngredientsForReview.array]
        rs == reviewedRecipes(recipes, at, recipe)
        active == IF isEdit THEN activeRecipeIds
                  ELSE activeRecipeIds \cup {newId}
        multipliers == IF isEdit THEN recipeMultipliers
                       ELSE setKey(recipeMultipliers, newId, Num(1))
    IN  /\ reviewModalOpen
        /\ pendingIngredientsForReview # null
        /\ pendingRecipeForReview # null
        /\ isEdit \/ now < MaxClock
        /\ now' = IF isEdit THEN now ELSE now + 1
        /\ recipes' = rs
        /\ activeRecipeIds' = active
        /\ recipeMultipliers' = multipliers
        /\ localStorage' = saveAll(localStorage, rs, active, multipliers)
        /\ consolidatedIngredients' =
               consolidateIngredients(consolidatedIngredients, rs, active,
                                      multipliers, unitSystem)
        /\ pendingRecipeForReview' = null
        /\ pendingIngredientsForReview' = null
        /\ reviewModalOpen' = FALSE
        /\ editingRecipeId' = NaN
        /\ errorMessage' = ""
        /\ UNCHANGED <<unitSystem, inlineEdits, parseInput, parseOutput,
                       shoppingListSortOrder, preloading>>

\* closeIngredientReviewModal(), the Cancel button of the review: the modal
\* is hidden, and the pending review and the form stay as they are
closeIngredientReviewModal ==
    /\ reviewModalOpen
    /\ reviewModalOpen' = FALSE
    /\ UNCHANGED <<recipes, consolidatedIngredients, activeRecipeIds,
                   recipeMultipliers, unitSystem, pendingRecipeForReview,
                   pendingIngredientsForReview, editingRecipeId, preloading,
                   localStorage, now, inlineEdits, errorMessage,
                   shoppingListSortOrder, parseInput, parseOutput>>

\* removeRecipe(recipeId)
removeRecipe(recipeId) ==
    LET rs == withoutId(recipes, recipeId)
        active == activeRecipeIds \ {recipeId}
        multipliers == deleteKey(recipeMultipliers, recipeId)
    IN  /\ ~reviewModalOpen
        /\ recipes' = rs
        /\ activeRecipeIds' = active
        /\ recipeMultipliers' = multipliers
        /\ localStorage' = saveAll(localStorage, rs, active, multipliers)
        /\ consolidatedIngredients' =
               consolidateIngredients(consolidatedIngredients, rs, active,
                                      multipliers, unitSystem)
        /\ errorMessage' = ""
        /\ UNCHANGED <<unitSystem, pendingRecipeForReview,
                       pendingIngredientsForReview, now, inlineEdits,
                       parseInput, parseOutput,
                       shoppingListSortOrder,
                       reviewModalOpen, editingRecipeId, preloading>>

\* The toggle that only ever adds
toggledOn(active, recipeId) == active \cup {recipeId}

\* The active set after toggleRecipeActive(recipeId)
toggledActive(active, recipeId) ==
    IF recipeId \in active THEN active \ {recipeId}
    ELSE active \cup {recipeId}

\* toggleRecipeActive(recipeId)
toggleRecipeActive(recipeId) ==
    LET active == toggledActive(activeRecipeIds, recipeId)
        multipliers ==
            IF recipeId \notin activeRecipeIds
               /\ hasNoMultiplier(recipeMultipliers, recipeId)
            THEN setKey(recipeMultipliers, recipeId, Num(1))
            ELSE recipeMultipliers
    IN  /\ ~reviewModalOpen
        /\ activeRecipeIds' = active
        /\ recipeMultipliers' = multipliers
        /\ localStorage' =
               saveRecipeMultipliers(saveActiveRecipes(localStorage, active),
                                     multipliers)
        /\ consolidatedIngredients' =
               consolidateIngredients(consolidatedIngredients, recipes,
                                      active, multipliers, unitSystem)
        /\ errorMessage' = ""
        /\ UNCHANGED <<recipes, unitSystem, pendingRecipeForReview,
                       pendingIngredientsForReview, now, inlineEdits,
                       parseInput, parseOutput,
                       shoppingListSortOrder,
                       reviewModalOpen, editingRecipeId, preloading>>

\* Only a text that is no number is rejected
rejectedNaN(num) == isNaN(num)

\* isNaN(num) || num < 0
rejectedMultiplier(num) == isNaN(num) \/ RLt(num, Num(0))

\* The active set and the multipliers after an accepted multiplier
multiplierSet(active, multipliers, recipeId, num) ==
    IF num = Num(0)
    THEN [active |-> active \ {recipeId},
          multipliers |-> deleteKey(multipliers, recipeId)]
    ELSE [active |-> active \cup {recipeId},
          multipliers |-> setKey(multipliers, recipeId, num)]

\* setRecipeMultiplier from the number read and the sets it leads to
multiplierRead(recipeId, num, after) ==
    /\ ~reviewModalOpen
    /\ IF rejectedMultiplier(num)
       THEN /\ errorMessage' = "Multiplier must be a positive number"
            /\ UNCHANGED <<activeRecipeIds, recipeMultipliers, localStorage,
                           consolidatedIngredients>>
       ELSE /\ activeRecipeIds' = after.active
            /\ recipeMultipliers' = after.multipliers
            /\ localStorage' =
                   saveRecipeMultipliers(
                       saveActiveRecipes(localStorage, after.active),
                       after.multipliers)
            /\ consolidatedIngredients' =
                   consolidateIngredients(consolidatedIngredients, recipes,
                                          after.active, after.multipliers,
                                          unitSystem)
            /\ errorMessage' = ""
    /\ UNCHANGED <<recipes, unitSystem, pendingRecipeForReview,
                   pendingIngredientsForReview, now, inlineEdits,
                   parseInput, parseOutput,
                   shoppingListSortOrder,
                   reviewModalOpen, editingRecipeId, preloading>>

\* setRecipeMultiplier(recipeId, multiplier), the multiplier a text
setRecipeMultiplier(recipeId, multiplier) ==
    multiplierRead(recipeId, parseFloatOnce(multiplier),
                   multiplierSet(activeRecipeIds, recipeMultipliers, recipeId,
                                 parseFloatOnce(multiplier)))

\* setUnitSystem(system)
setUnitSystem(system) ==
    /\ ~reviewModalOpen
    /\ unitSystem' = system
    /\ localStorage' = [localStorage EXCEPT !.unitSystem = [text |-> system]]
    /\ consolidatedIngredients' =
           consolidateIngredients(consolidatedIngredients, recipes,
                                  activeRecipeIds, recipeMultipliers, system)
    /\ errorMessage' = ""
    /\ UNCHANGED <<recipes, activeRecipeIds, recipeMultipliers,
                   pendingRecipeForReview, pendingIngredientsForReview, now,
                   inlineEdits, parseInput, parseOutput,
                   shoppingListSortOrder,
                   reviewModalOpen, editingRecipeId, preloading>>

\* The entries of an imported array that pass the structure check
\* (recipe && recipe.name && Array.isArray(recipe.ingredients))
RECURSIVE validRecipes(_)
validRecipes(imported) ==
    IF imported = <<>> THEN <<>>
    ELSE IF imported[1].name # <<>> /\ "array" \in DOMAIN imported[1].ingredients
    THEN <<imported[1]>> \o validRecipes(Tail(imported))
    ELSE validRecipes(Tail(imported))

\* Date.now() at the k-th reading of a handler, ticks[j] being the
\* milliseconds that pass before the j-th reading
RECURSIVE clockAt(_, _, _)
clockAt(start, ticks, k) ==
    IF k = 0 THEN start ELSE clockAt(start, ticks, k - 1) + ticks[k]

\* recipe.id = Date.now() + Math.random() for the k-th recipe of the loop
newId(start, ticks, random, k) ==
    RAdd(Num(clockAt(start, ticks, k)), random[k])

\* The recipes of a file under their new ids
withNewIds(valid, start, ticks, random) ==
    [k \in 1..Len(valid) |->
        [id |-> newId(start, ticks, random, k),
         name |-> valid[k].name,
         ingredients |-> valid[k].ingredients.array]]

\* importRecipes(event), at the time the file has been read: the valid
\* recipes are appended under new ids Date.now() + Math.random(), inactive.
\* The handler starts a millisecond or more after the one before it
\* (ticks[1] >= 1); inside its loop the clock may stand still.
importRecipes(file, random, ticks) ==
    LET valid == IF file = null THEN <<>> ELSE validRecipes(file.json)
        added == withNewIds(valid, now, ticks, random)
        rs == recipes \o added
    IN  /\ ~reviewModalOpen
        /\ IF file = null
           THEN /\ errorMessage' =
                       "Error importing recipes. Please check the file format."
                /\ UNCHANGED <<recipes, localStorage, consolidatedIngredients,
                               now>>
           ELSE IF Len(valid) = 0
           THEN /\ errorMessage' = "No valid recipes found in file"
                /\ UNCHANGED <<recipes, localStorage, consolidatedIngredients,
                               now>>
           ELSE /\ DOMAIN random = 1..Len(valid)
                /\ DOMAIN ticks = 1..Len(valid)
                /\ ticks[1] >= 1
                /\ clockAt(now, ticks, Len(valid)) <= MaxClock
                /\ now' = clockAt(now, ticks, Len(valid))
                /\ recipes' = rs
                /\ localStorage' =
                       saveActiveRecipes(saveRecipes(localStorage, rs),
                                         activeRecipeIds)
                /\ consolidatedIngredients' =
                       consolidateIngredients(consolidatedIngredients, rs,
                                              activeRecipeIds,
                                              recipeMultipliers, unitSystem)
                /\ errorMessage' = ""
        /\ UNCHANGED <<activeRecipeIds, recipeMultipliers, unitSystem,
                       pendingRecipeForReview, pendingIngredientsForReview,
                       inlineEdits, parseInput, parseOutput,
                       shoppingListSortOrder,
                       reviewModalOpen, editingRecipeId, preloading>>

\* clearAll(), the user having confirmed the dialog
clearAll ==
    /\ ~reviewModalOpen
    /\ recipes' = <<>>
    /\ consolidatedIngredients' = <<>>
    /\ localStorage' = [localStorage EXCEPT !.recipes = null]
    /\ errorMessage' = ""
    /\ UNCHANGED <<activeRecipeIds, recipeMultipliers, unitSystem,
                   pendingRecipeForReview, pendingIngredientsForReview, now,
                   inlineEdits, parseInput, parseOutput,
                   shoppingListSortOrder,
                   reviewModalOpen, editingRecipeId, preloading>>

\* loadUnitSystem() on a new page: the unit system and the store after it
loadUnitSystem(store) ==
    LET saved == store.unitSystem
    IN  IF saved = null
        THEN [unitSystem |-> "imperial", store |-> store]
        ELSE IF saved.text \in {"imperial-culinary", "imperial-technical"}
        THEN [unitSystem |-> "imperial",
              store |-> [store EXCEPT !.unitSystem = [text |-> "imperial"]]]
        ELSE IF saved.text \in {"metric", "imperial"}
        THEN [unitSystem |-> saved.text, store |-> store]
        ELSE [unitSystem |-> "imperial", store |-> store]

\* The saved sort taken as it is
anySavedSort(store) ==
    IF store.shoppingListSort = null THEN "alphabetical"
    ELSE store.shoppingListSort.text

\* loadShoppingListSort() on a new page: the saved sort order when it is one
\* of the two orders, else the initial order
loadShoppingListSort(store) ==
    IF store.shoppingListSort # null
       /\ store.shoppingListSort.text \in {"alphabetical", "category"}
    THEN store.shoppingListSort.text
    ELSE "alphabetical"

\* loadRecipes() on a new page: the recipes, the active set, the
\* multipliers and the store after it, and whether the pass ran
loadRecipes(store) ==
    LET saved == store.recipes
        rs == saved.json
        savedActive == store.activeRecipes
        active == IF savedActive # null /\ isJSON(savedActive)
                  THEN savedActive.json
                  ELSE recipeIds(rs)
        savedMultipliers == store.multipliers
        multipliers ==
            IF savedMultipliers # null /\ isJSON(savedMultipliers)
            THEN defaultMultipliers(savedMultipliers.json, active)
            ELSE [id \in active |-> Num(1)]
    IN  IF saved = null
        THEN [recipes |-> <<>>, active |-> {}, multipliers |-> noMultipliers,
              store |-> store, loaded |-> FALSE]
        ELSE IF ~isJSON(saved)
        THEN [recipes |-> <<>>, active |-> {}, multipliers |-> noMultipliers,
              store |-> [store EXCEPT !.recipes = null], loaded |-> FALSE]
        ELSE [recipes |-> rs, active |-> active, multipliers |-> multipliers,
              store |-> store, loaded |-> TRUE]

\* The page after loadUnitSystem(), loadShoppingListSort() and loadRecipes()
pageLoaded(u, sortOrder, l) ==
    /\ unitSystem' = u.unitSystem
    /\ shoppingListSortOrder' = sortOrder
    /\ recipes' = l.recipes
    /\ activeRecipeIds' = l.active
    /\ recipeMultipliers' = l.multipliers
    /\ localStorage' = l.store
    /\ consolidatedIngredients' =
           IF l.loaded
           THEN consolidateIngredients(<<>>, l.recipes, l.active,
                                       l.multipliers, u.unitSystem)
           ELSE <<>>
    /\ pendingRecipeForReview' = null
    /\ pendingIngredientsForReview' = null
    /\ reviewModalOpen' = FALSE
    /\ editingRecipeId' = NaN
    /\ preloading' = noPreloading
    /\ errorMessage' = ""
    /\ UNCHANGED <<now, inlineEdits, parseInput, parseOutput>>

\* The page is opened again: the script starts from its initial values and
\* the DOMContentLoaded handler runs loadUnitSystem(),
\* loadShoppingListSort() and loadRecipes()
PageLoad ==
    pageLoaded(loadUnitSystem(localStorage),
               loadShoppingListSort(localStorage),
               loadRecipes(loadUnitSystem(localStorage).store))

\* setShoppingListSort(sortOrder)
setShoppingListSort(sortOrder) ==
    /\ shoppingListSortOrder' = sortOrder
    /\ localStorage' =
           [localStorage EXCEPT !.shoppingListSort = [text |-> sortOrder]]
    /\ UNCHANGED <<recipes, consolidatedIngredients, activeRecipeIds,
                   recipeMultipliers, unitSystem, pendingRecipeForReview,
                   pendingIngredientsForReview, now, inlineEdits,
                   errorMessage, parseInput, parseOutput,
                   reviewModalOpen, editingRecipeId, preloading>>

\* The quantities the conversions are called on: whole numbers, table
\* fractions, values next to the thresholds of the unit choice and of the
\* fraction table, and decimals that match no fraction
ConvertQuantities ==
    { Num(0), Rat(1, 125), Rat(1, 20), Rat(1, 16), Rat(1, 8), Rat(1, 4),
      Rat(3179, 10000), Rat(1, 3), Rat(1, 2), Rat(51, 100), Rat(13, 25),
      Num(1),
      Rat(126, 125), Rat(3, 2), Rat(29, 20), Num(2), Rat(2999, 1000),
      Num(3), Num(7), Num(15), Num(16), Num(29), Num(30), Num(453),
      Num(500) }

\* The unit strings the conversions are called on: none, units of both
\* tables, other spellings of table units, and a unit of no table
ConvertUnits ==
    { <<>>, CUP, TABLESPOON, TEASPOON, FLUID_OUNCE, OUNCE, POUND, ML, G,
      <<"C", "u", "p">>, <<"T", "B">>, <<"p", "i", "n", "c", "h">> }

UnitTypes == { "volume", "weight", "count" }

ConvertInputs ==
    { [quantity |-> aQuantity, unit |-> aUnit, unitType |-> aUnitType] :
        aQuantity \in ConvertQuantities, aUnit \in ConvertUnits,
        aUnitType \in UnitTypes }

\* The page with one of the two unit systems selected and a quantity, a
\* unit and a unit type at hand
InitConvert ==
    /\ recipes = <<>>
    /\ consolidatedIngredients = <<>>
    /\ activeRecipeIds = {}
    /\ recipeMultipliers = noMultipliers
    /\ unitSystem \in UnitSystems
    /\ pendingRecipeForReview = null
    /\ pendingIngredientsForReview = null
    /\ reviewModalOpen = FALSE
    /\ editingRecipeId = NaN
    /\ preloading = noPreloading
    /\ localStorage = emptyStorage
    /\ now = 0
    /\ inlineEdits = 0
    /\ errorMessage = ""
    /\ shoppingListSortOrder = "alphabetical"
    /\ parseInput \in ConvertInputs
    /\ parseOutput = null

\* convertToBaseUnit(quantity, unit, unitType) is called on the input
callConvertToBaseUnit ==
    /\ parseOutput = null
    /\ parseOutput' = [fn |-> "convertToBaseUnit",
                       value |-> convertToBaseUnit(parseInput.quantity,
                                                   parseInput.unit,
                                                   parseInput.unitType)]
    /\ UNCHANGED <<appVars, parseInput>>

\* convertToPreferredUnitSystem(base.value, base.unitType) is called on the
\* result of convertToBaseUnit, as consolidateIngredients does
callConvertToPreferredUnitSystem ==
    /\ parseOutput # null
    /\ parseOutput.fn = "convertToBaseUnit"
    /\ parseOutput' = [fn |-> "convertToPreferredUnitSystem",
                       base |-> parseOutput.value,
                       value |-> convertToPreferredUnitSystem(
                                     parseOutput.value.value,
                                     parseOutput.value.unitType, unitSystem)]
    /\ UNCHANGED <<appVars, parseInput>>

\* formatQuantity(qty) is called on the quantity of the input
callFormatQuantity ==
    /\ parseOutput = null
    /\ parseOutput' = [fn |-> "formatQuantity",
                       value |-> formatQuantity(parseInput.quantity)]
    /\ UNCHANGED <<appVars, parseInput>>

\* formatQuantity(item.displayQuantity) on a displayQuantity that
\* formatQuantity returned: a string of formatQuantity holds a "/", isNaN of
\* it is true and it is returned as it is; a number is formatted again
formatDisplayQuantity(displayQuantity) ==
    IF isString(displayQuantity) THEN displayQuantity
    ELSE formatQuantity(displayQuantity)

\* renderShoppingListItem formats the displayQuantity of an item, which
\* formatQuantity has formatted already
renderShoppingListItem ==
    /\ parseOutput # null
    /\ parseOutput.fn = "formatQuantity"
    /\ parseOutput' = [fn |-> "renderShoppingListItem",
                       displayQuantity |-> parseOutput.value,
                       value |-> formatDisplayQuantity(parseOutput.value)]
    /\ UNCHANGED <<appVars, parseInput>>

NextConvert ==
    \/ callConvertToBaseUnit
    \/ callConvertToPreferredUnitSystem
    \/ callFormatQuantity
    \/ renderShoppingListItem

SpecConvert == InitConvert /\ [][NextConvert]_vars

\* A recipe of a file: one line, n onions, under the given name
fileRecipe(name, n, digit) ==
    [name |-> name,
     ingredients |->
         [array |->
           << [quantity |-> Num(n), unit |-> <<>>, unitType |-> "count",
               ingredient |-> <<"o", "n", "i", "o", "n">>, notes |-> <<>>,
               originalLine |->
                   <<digit, " ", "o", "n", "i", "o", "n">>,
               isCombined |-> FALSE, originalPairs |-> <<>>] >>]]

\* Files with more than one valid recipe
TwoRecipeFiles ==
    { [json |-> << fileRecipe(<<"S", "o", "u", "p">>, 3, "3"),
                   fileRecipe(<<"B", "r", "o", "t", "h">>, 2, "2") >>] }

\* What fetch('WholeFoods.json') and response.json() give: null when the
\* fetch fails, a response that is not ok, JSON that is not an array
\* (json null), or an array of recipes
PreloadResponses ==
    { null,
      [ok |-> FALSE],
      [ok |-> TRUE, json |-> null],
      [ok |-> TRUE,
       json |-> [array |-> << fileRecipe(<<"S", "o", "u", "p">>, 3, "3"),
                              fileRecipe(<<"S", "t", "e", "w">>, 1, "1"),
                              [name |-> <<>>,
                               ingredients |-> [array |-> <<>>]] >>]] }

\* The fractions Math.random() adds to an id.  Date.now() is about 2^41, so
\* the sum keeps 12 binary digits of the random value: two values of one
\* millisecond that agree in them give one id.
IdRandomValues == { Rat(1, 4), Rat(1, 2) }

\* The milliseconds between two readings of Date.now() inside a loop
LoopTicks == { 0, 1 }

\* recipes.map(r => r.name.toLowerCase())
existingNames(rs) == { toLowerCase(rs[i].name) : i \in 1..Len(rs) }

\* Every valid recipe whatever the names of the list
allValid(valid, names) == valid

\* validRecipes.filter(recipe => !existingNames.has(recipe.name.toLowerCase()))
RECURSIVE newRecipes(_, _)
newRecipes(valid, names) ==
    IF valid = <<>> THEN <<>>
    ELSE IF toLowerCase(valid[1].name) \in names
    THEN newRecipes(Tail(valid), names)
    ELSE <<valid[1]>> \o newRecipes(Tail(valid), names)

\* loadPreloadedRecipes() from the point where fetch and response.json()
\* have answered: what follows the awaits runs in one piece.  The valid
\* recipes whose name is not in the list yet are appended under new ids,
\* inactive.
afterAwaits(response, random, ticks) ==
    LET valid == validRecipes(response.json.array)
        fresh == newRecipes(valid, existingNames(recipes))
        added == withNewIds(fresh, now, ticks, random)
        rs == recipes \o added
    IN  /\ IF response = null
           THEN /\ errorMessage' =
                       "Error loading preloaded recipes. Please check if WholeFoods.json exists."
                /\ UNCHANGED <<recipes, localStorage, consolidatedIngredients,
                               now>>
           ELSE IF ~response.ok
           THEN /\ errorMessage' = "Could not load preloaded recipes"
                /\ UNCHANGED <<recipes, localStorage, consolidatedIngredients,
                               now>>
           ELSE IF response.json = null
           THEN /\ errorMessage' = "Invalid preloaded recipe file format"
                /\ UNCHANGED <<recipes, localStorage, consolidatedIngredients,
                               now>>
           ELSE IF Len(valid) = 0
           THEN /\ errorMessage' = "No valid recipes found in preloaded file"
                /\ UNCHANGED <<recipes, localStorage, consolidatedIngredients,
                               now>>
           ELSE IF Len(fresh) = 0
           THEN /\ errorMessage' = ""
                /\ UNCHANGED <<recipes, localStorage, consolidatedIngredients,
                               now>>
           ELSE /\ DOMAIN random = 1..Len(fresh)
                /\ DOMAIN ticks = 1..Len(fresh)
                /\ ticks[1] >= 1
                /\ clockAt(now, ticks, Len(fresh)) <= MaxClock
                /\ now' = clockAt(now, ticks, Len(fresh))
                /\ recipes' = rs
                /\ localStorage' =
                       saveActiveRecipes(saveRecipes(localStorage, rs),
                                         activeRecipeIds)
                /\ consolidatedIngredients' =
                       consolidateIngredients(consolidatedIngredients, rs,
                                              activeRecipeIds,
                                              recipeMultipliers, unitSystem)
                /\ errorMessage' = ""
        /\ UNCHANGED <<activeRecipeIds, recipeMultipliers, unitSystem,
                       pendingRecipeForReview, pendingIngredientsForReview,
                       inlineEdits, parseInput, parseOutput,
                       shoppingListSortOrder,
                       reviewModalOpen, editingRecipeId>>

\* loadPreloadedRecipes() as one step, for a call that no other call and no
\* operation of the user overlaps
loadPreloadedRecipes(response, random, ticks) ==
    /\ afterAwaits(response, random, ticks)
    /\ UNCHANGED preloading

\* loadPreloadedRecipes() is called and waits at await fetch(...); the call
\* has read nothing of the page yet
callLoadPreloadedRecipes(call) ==
    /\ preloading[call] = idle
    /\ preloading' = [preloading EXCEPT ![call] = awaitingFetch]
    /\ UNCHANGED <<recipes, consolidatedIngredients, activeRecipeIds,
                   recipeMultipliers, unitSystem, pendingRecipeForReview,
                   pendingIngredientsForReview, reviewModalOpen,
                   editingRecipeId, localStorage, now, inlineEdits,
                   errorMessage, shoppingListSortOrder, parseInput,
                   parseOutput>>

\* fetch answers a waiting call: a failed fetch and a response that is not
\* ok end the call with a message, an ok response makes it wait at
\* await response.json()
fetchAnswered(call, response) ==
    /\ preloading[call] = awaitingFetch
    /\ IF response = null
       THEN /\ errorMessage' =
                   "Error loading preloaded recipes. Please check if WholeFoods.json exists."
            /\ preloading' = [preloading EXCEPT ![call] = idle]
       ELSE IF ~response.ok
       THEN /\ errorMessage' = "Could not load preloaded recipes"
            /\ preloading' = [preloading EXCEPT ![call] = idle]
       ELSE /\ preloading' =
                   [preloading EXCEPT ![call] = awaitingJson(response)]
            /\ UNCHANGED errorMessage
    /\ UNCHANGED <<recipes, consolidatedIngredients, activeRecipeIds,
                   recipeMultipliers, unitSystem, pendingRecipeForReview,
                   pendingIngredientsForReview, reviewModalOpen,
                   editingRecipeId, localStorage, now, inlineEdits,
                   shoppingListSortOrder, parseInput, parseOutput>>

\* response.json() answers a waiting call, which runs to its end on the
\* recipe list as it is now
jsonAnswered(call, random, ticks) ==
    /\ preloading[call].at = "json"
    /\ afterAwaits(preloading[call].response, random, ticks)
    /\ preloading' = [preloading EXCEPT ![call] = idle]


\* The operations that add and remove recipes, on files of several recipes
NextIds ==
    \/ \E form \in RecipeForms : addRecipe(form)
    \/ confirmIngredientReview
    \/ \E file \in TwoRecipeFiles, random \in [1..2 -> IdRandomValues],
          ticks \in [1..2 -> LoopTicks] :
           importRecipes(file, random, ticks)
    \/ \E response \in PreloadResponses, loopLength \in 1..2 :
       \E random \in [1..loopLength -> IdRandomValues],
          ticks \in [1..loopLength -> LoopTicks] :
           loadPreloadedRecipes(response, random, ticks)
    \/ \E id \in recipeIds(recipes) : removeRecipe(id)

SpecIds == Init /\ [][NextIds]_vars

\* Calls of loadPreloadedRecipes that overlap each other and the operations
\* of the user that add and remove recipes
NextPreload ==
    \/ \E call \in PreloadCalls : callLoadPreloadedRecipes(call)
    \/ \E call \in PreloadCalls, response \in PreloadResponses :
           fetchAnswered(call, response)
    \/ \E call \in PreloadCalls, loopLength \in 1..2 :
       \E random \in [1..loopLength -> IdRandomValues],
          ticks \in [1..loopLength -> LoopTicks] :
           jsonAnswered(call, random, ticks)
    \/ \E form \in RecipeForms : addRecipe(form)
    \/ confirmIngredientReview
    \/ \E id \in recipeIds(recipes) : removeRecipe(id)

SpecPreload == Init /\ [][NextPreload]_vars

Next ==
    \/ \E form \in RecipeForms : addRecipe(form)
    \/ \E id \in recipeIds(recipes) : editRecipe(id)
    \/ \E e \in InlineEdits :
           finishIngredientInlineEdit(e.index, e.field, e.value)
    \/ confirmIngredientReview
    \/ \E id \in recipeIds(recipes) : removeRecipe(id)
    \/ \E id \in recipeIds(recipes) : toggleRecipeActive(id)
    \/ \E id \in recipeIds(recipes), multiplier \in MultiplierInputs :
           setRecipeMultiplier(id, multiplier)
    \/ \E system \in UnitSystems : setUnitSystem(system)
    \/ \E file \in ImportFiles, random \in [1..1 -> RandomValues],
          ticks \in [1..1 -> {1}] :
           importRecipes(file, random, ticks)
    \/ clearAll
    \/ PageLoad

Spec == Init /\ [][Next]_vars

\* The recipe form and the review: recipes are added, opened for editing,
\* saved from the form, edited in the review, confirmed and removed
NextEdit ==
    \/ \E form \in RecipeForms : addRecipe(form)
    \/ \E id \in recipeIds(recipes) : editRecipe(id)
    \/ \E form \in RecipeForms : saveRecipeEdit(form)
    \/ \E e \in InlineEdits :
           finishIngredientInlineEdit(e.index, e.field, e.value)
    \/ confirmIngredientReview
    \/ closeIngredientReviewModal
    \/ \E id \in recipeIds(recipes) : removeRecipe(id)

SpecEdit == Init /\ [][NextEdit]_vars

\* What a browser may hold under the keys when the page is opened: nothing,
\* text that JSON.parse rejects, or a value written earlier
CorruptItem == [text |-> "{"]

StoredRecipes ==
    << [id |-> Num(1), name |-> <<"P", "a", "n", "c", "a", "k", "e", "s">>,
        ingredients |->
            parseRecipeOnce(<<"2", " ", "c", "u", "p", "s", " ", "f", "l",
                              "o", "u", "r", "\n", "1", " ", "o", "n", "i",
                              "o", "n", "\n", "1", " ", "c", "u", "p", " ",
                              "b", "u", "t", "t", "e", "r">>)],
       [id |-> Num(2), name |-> <<"S", "o", "u", "p">>,
        ingredients |-> << [quantity |-> Num(3), unit |-> <<>>,
                            unitType |-> "count",
                            ingredient |-> <<"o", "n", "i", "o", "n">>,
                            notes |-> <<>>,
                            originalLine |-> <<"3", " ", "o", "n", "i", "o",
                                               "n">>,
                            isCombined |-> FALSE,
                            originalPairs |-> <<>>] >>] >>

StoredItems ==
    [recipes : {null, CorruptItem, stringify(StoredRecipes)},
     activeRecipes : {null, CorruptItem, stringify({Num(1)})},
     multipliers : {null, CorruptItem,
                    stringify([aStoredId \in {Num(1)} |-> Num(2)])},
     unitSystem : {null, [text |-> "metric"],
                   [text |-> "imperial-technical"], [text |-> "bogus"]},
     shoppingListSort : {null, [text |-> "category"], [text |-> "bogus"]}]

\* The page is opened on a store that holds any of these items
InitLoad ==
    /\ recipes = <<>>
    /\ consolidatedIngredients = <<>>
    /\ activeRecipeIds = {}
    /\ recipeMultipliers = noMultipliers
    /\ unitSystem = "imperial"
    /\ pendingRecipeForReview = null
    /\ pendingIngredientsForReview = null
    /\ reviewModalOpen = FALSE
    /\ editingRecipeId = NaN
    /\ preloading = noPreloading
    /\ localStorage \in StoredItems
    /\ now = 0
    /\ inlineEdits = 0
    /\ errorMessage = ""
    /\ shoppingListSortOrder = "alphabetical"
    /\ parseInput = <<>>
    /\ parseOutput = null

NextLoad ==
    \/ PageLoad
    \/ \E sortOrder \in {"alphabetical", "category"} :
           setShoppingListSort(sortOrder)

SpecLoad == InitLoad /\ [][NextLoad]_vars

-----------------------------------------------------------------------------
(* The line parser on its own: one text is handed to extractQuantity or   *)
(* to parseIngredientLine and the value returned is kept.                 *)

\* The integers of a range are at most this
MaxRangeNumber == 11

\* A "+" line has at most this many parts before its name
MaxParts == 3

RangeSeparators == { <<"-">>, <<" ", "-", " ">> }

RangeTails ==
    { <<>>, <<"c", "u", "p", "s">>,
      <<" ", "c", "u", "p", "s", " ", "f", "l", "o", "u", "r">>,
      <<"/", "2", " ", "c", "u", "p">> }

\* The text N-M followed by a tail
rangeText(n, m, sep, tail) == natToString(n) \o sep \o natToString(m) \o tail

RangeTexts ==
    { rangeText(lowBound, highBound, aSeparator, aTail) :
          lowBound \in 0..MaxRangeNumber, highBound \in 0..MaxRangeNumber,
          aSeparator \in RangeSeparators, aTail \in RangeTails }

\* The parts a "+" line is made of: measurements of volume and of weight,
\* a count and a bare name
PlusPieces ==
    { <<"1", " ", "c", ".">>, <<"2", " ", "t", "b", "s", "p", ".">>,
      <<"1", " ", "l", "b">>, <<"1", " ", "T", "B">>,
      <<"2", " ", "e", "g", "g", "s">>, <<"b", "u", "t", "t", "e", "r">> }

PlusNames == { <<>>, <<" ", "b", "u", "t", "t", "e", "r">> }

PlusLines ==
    { join(somePieces, <<" ", "+", " ">>) \o aName :
          somePieces \in UNION { [1..count -> PlusPieces] :
                                    count \in 2..MaxParts },
          aName \in PlusNames }

\* Whole parts of the mixed numbers run from 0 to this bound
MaxWhole == 3

\* The vulgar-fraction glyphs with the numerator and the denominator each
\* one stands for
GlyphFractions ==
    { <<"{1/2}", 1, 2>>, <<"{1/3}", 1, 3>>, <<"{2/3}", 2, 3>>,
      <<"{1/4}", 1, 4>>, <<"{3/4}", 3, 4>>, <<"{1/5}", 1, 5>>,
      <<"{2/5}", 2, 5>>, <<"{3/5}", 3, 5>>, <<"{4/5}", 4, 5>>,
      <<"{1/6}", 1, 6>>, <<"{5/6}", 5, 6>>, <<"{1/8}", 1, 8>>,
      <<"{3/8}", 3, 8>>, <<"{5/8}", 5, 8>>, <<"{7/8}", 7, 8>> }

MixedTails == { <<>>, <<" ", "c", "u", "p", "s">> }

\* The three ways of writing the mixed number w a/b: "w a/b", "wg", "w g"
asciiMixed(w, f, tail) ==
    natToString(w) \o <<" ">> \o natToString(f[2]) \o <<"/">>
    \o natToString(f[3]) \o tail

glyphMixed(w, f, tail) == natToString(w) \o <<f[1]>> \o tail

spacedGlyphMixed(w, f, tail) == natToString(w) \o <<" ", f[1]>> \o tail

MixedTexts ==
    UNION { { asciiMixed(aWhole, aGlyph, aMixedTail),
              glyphMixed(aWhole, aGlyph, aMixedTail),
              spacedGlyphMixed(aWhole, aGlyph, aMixedTail) } :
            aWhole \in 0..MaxWhole, aGlyph \in GlyphFractions,
            aMixedTail \in MixedTails }

\* The unit words and the texts after them that the lines "2 <word><after>"
\* are made of
UnitWords ==
    { <<"c", "u", "p", "s">>, <<"c", "u", "p">>, <<"c">>, <<"c", ".">>,
      <<"C", "u", "p", "s">>, <<"t", "b", "s", "p">>, <<"T">>, <<"T", "B">>,
      <<"f", "l", " ", "o", "z">>, <<"o", "z">>, <<"g">>, <<"l", "b">> }

UnitFollowers ==
    { <<>>, <<" ", "f", "l", "o", "u", "r">>,
      <<",", " ", "f", "l", "o", "u", "r">>,
      <<".", " ", "f", "l", "o", "u", "r">>, <<".">>,
      <<".", "f", "l", "o", "u", "r">>, <<"o", "r", "n">>, <<"o", "n", "e">>,
      <<" ", "3", " ", "e", "g", "g", "s">>,
      <<",", " ", "3", " ", "e", "g", "g", "s">> }

unitLine(word, after) == <<"2", " ">> \o word \o after

UnitLines ==
    { unitLine(aWord, aFollower) :
          aWord \in UnitWords, aFollower \in UnitFollowers }

\* The ingredient names normalizeIngredientName is called on: every alias
\* and every key of INGREDIENT_ALIASES, names in capitals, names that are no
\* alias, and names of which the cleaning steps leave nothing
AliasNames ==
    UNION { {INGREDIENT_ALIASES[anEntry].aliases[anAlias] :
                anAlias \in 1..Len(INGREDIENT_ALIASES[anEntry].aliases)} :
            anEntry \in 1..Len(INGREDIENT_ALIASES) }

KeyNames ==
    {INGREDIENT_ALIASES[aKey].key : aKey \in 1..Len(INGREDIENT_ALIASES)}

OtherNames ==
    { <<"A", "l", "l", "-", "P", "u", "r", "p", "o", "s", "e", " ", "F", "l",
        "o", "u", "r">>,
      <<"A", "P", " ", "f", "l", "o", "u", "r">>,
      <<"c", "o", "r", "n">>, <<"e", "g", "g", "s">>,
      <<"t", "o", "m", "a", "t", "o", "e", "s">>,
      <<"f", "r", "e", "s", "h", " ", "b", "a", "s", "i", "l">>,
      <<"(", "o", "p", "t", "i", "o", "n", "a", "l", ")">>,
      <<",", " ", "c", "h", "o", "p", "p", "e", "d">>,
      <<"s">>,
      <<"o", "l", "i", "v", "e">>, <<"o", "l", "i", "v", "e", "s">>,
      <<"c", "a", "r", "r", "o", "t">>, <<"c", "a", "r", "r", "o", "t", "s">>,
      <<"t", "o", "m", "a", "t", "o">>,
      <<"p", "o", "t", "a", "t", "o", "e", "s">> }

NameInputs == AliasNames \cup KeyNames \cup OtherNames

\* Lines whose ingredient name carries prep words, one for each branch of
\* parseIngredientLine: combined quantities, a volume unit, a weight unit,
\* a count and no quantity
PrepLines ==
    { <<"1", " ", "c", ".", " ", "+", " ", "2", " ", "t", "b", "s", "p", ".",
        " ", "c", "h", "o", "p", "p", "e", "d", " ", "b", "u", "t", "t", "e",
        "r">>,
      <<"2", " ", "c", "u", "p", "s", " ", "f", "r", "e", "s", "h", " ", "b",
        "a", "s", "i", "l">>,
      <<"1", " ", "l", "b", " ", "g", "r", "o", "u", "n", "d", " ", "b", "e",
        "e", "f">>,
      <<"2", " ", "o", "n", "i", "o", "n", "s", " ", "c", "h", "o", "p", "p",
        "e", "d">>,
      <<"f", "r", "e", "s", "h", " ", "f", "i", "n", "e", "l", "y", " ", "c",
        "h", "o", "p", "p", "e", "d", " ", "b", "a", "s", "i", "l">> }

ParseInputs ==
    RangeTexts \cup PlusLines \cup MixedTexts \cup UnitLines \cup NameInputs
    \cup PrepLines

InitParse ==
    /\ recipes = <<>>
    /\ consolidatedIngredients = <<>>
    /\ activeRecipeIds = {}
    /\ recipeMultipliers = noMultipliers
    /\ unitSystem = "imperial"
    /\ pendingRecipeForReview = null
    /\ pendingIngredientsForReview = null
    /\ reviewModalOpen = FALSE
    /\ editingRecipeId = NaN
    /\ preloading = noPreloading
    /\ localStorage = emptyStorage
    /\ now = 0
    /\ inlineEdits = 0
    /\ errorMessage = ""
    /\ shoppingListSortOrder = "alphabetical"
    /\ parseInput \in ParseInputs
    /\ parseOutput = null

\* extractQuantity and parseIngredientLine on the texts, computed once
ExtractedQuantities ==
    {<<aText, extractQuantity(aText)>> : aText \in ParseInputs}

ParsedLines ==
    {<<aText, parseIngredientLine(aText)>> : aText \in ParseInputs}

\* normalizeIngredientName on the names, computed once
NormalizedInputs ==
    {<<aNameInput, normalizeIngredientName(aNameInput)>> :
        aNameInput \in NameInputs}

\* extractQuantity(text) is called on the text
callExtractQuantity ==
    /\ parseOutput = null
    /\ parseOutput' = [fn |-> "extractQuantity",
                       value |-> valueAt(ExtractedQuantities, parseInput)]
    /\ UNCHANGED <<appVars, parseInput>>

\* parseIngredientLine(line) is called on the text
callParseIngredientLine ==
    /\ parseOutput = null
    /\ parseOutput' = [fn |-> "parseIngredientLine",
                       value |-> valueAt(ParsedLines, parseInput)]
    /\ UNCHANGED <<appVars, parseInput>>

\* normalizeIngredientName(name) is called on a name
callNormalizeIngredientName ==
    /\ parseOutput = null
    /\ parseInput \in NameInputs
    /\ parseOutput' = [fn |-> "normalizeIngredientName",
                       value |-> valueAt(NormalizedInputs, parseInput)]
    /\ UNCHANGED <<appVars, parseInput>>

\* convertToBaseUnit(quantity, unit, unitType) is called on the quantity,
\* the unit and the unit type of a parsed line, as consolidateIngredients
\* does for an ingredient under multiplier 1
convertParsedLine ==
    /\ parseOutput # null
    /\ parseOutput.fn = "parseIngredientLine"
    /\ parseOutput.value # null
    /\ parseOutput' = [fn |-> "convertToBaseUnit",
                       line |-> parseOutput.value,
                       value |-> convertToBaseUnit(parseOutput.value.quantity,
                                                   parseOutput.value.unit,
                                                   parseOutput.value.unitType)]
    /\ UNCHANGED <<appVars, parseInput>>

NextParse ==
    \/ callExtractQuantity
    \/ callParseIngredientLine
    \/ callNormalizeIngredientName
    \/ convertParsedLine

SpecParse == InitParse /\ [][NextParse]_vars

-----------------------------------------------------------------------------
(* Properties of the shopping list                                         *)

\* A pass over the current recipes, active set, multipliers and unit system
\* that starts from nothing
freshPass ==
    consolidateIngredients(<<>>, recipes, activeRecipeIds, recipeMultipliers,
                           unitSystem)

\* C1: after any sequence of completed mutations the shopping list equals
\* the result of a fresh consolidation pass over the current recipes, active
\* ids, multipliers and unit system; nothing of an earlier pass survives.
C1_FreshConsolidation == consolidatedIngredients = freshPass

\* Two recipes, one of them switched off, and a shopping list that is not
\* empty: passes have run over different sets of contributions
C1_Witness ==
    /\ Len(recipes) = 2
    /\ Cardinality(activeRecipeIds \cap recipeIds(recipes)) = 1
    /\ consolidatedIngredients # <<>>

C3_ZeroRemovesBadRejected ==
    [][\A id \in recipeIds(recipes) :
          /\ setRecipeMultiplier(id, <<"0">>) =>
                /\ id \notin activeRecipeIds'
                /\ consolidatedIngredients' =
                       consolidateIngredients(<<>>, withoutId(recipes', id),
                                              activeRecipeIds',
                                              recipeMultipliers', unitSystem')
          /\ \A bad \in {<<"-", "1">>, <<"a", "b", "c">>} :
                setRecipeMultiplier(id, bad) =>
                    /\ errorMessage' = "Multiplier must be a positive number"
                    /\ UNCHANGED <<activeRecipeIds, recipeMultipliers>>]_vars

\* A recipe added through the review (it was active with multiplier 1) is
\* inactive and has no multiplier after the multiplier 0, and the last
\* multiplier typed was rejected
C3_Witness ==
    /\ errorMessage = "Multiplier must be a positive number"
    /\ \E i \in 1..Len(recipes) :
          /\ recipes[i].id.d = 1
          /\ recipes[i].id \notin activeRecipeIds
          /\ recipes[i].id \notin DOMAIN recipeMultipliers
          /\ recipes[i].ingredients # <<>>

\* C4: toggling an active recipe inactive removes every contribution of
\* that recipe from the consolidation result and leaves the recipe list,
\* the toggled recipe and its ingredient records included, unchanged.
C4_ToggleOffRemovesContributions ==
    [][\A id \in activeRecipeIds \cap recipeIds(recipes) :
          toggleRecipeActive(id) =>
              /\ recipes' = recipes
              /\ consolidatedIngredients' =
                     consolidateIngredients(<<>>, withoutId(recipes, id),
                                            activeRecipeIds, recipeMultipliers,
                                            unitSystem)]_vars

\* A recipe added through the review that is inactive and has kept its
\* multiplier: it was toggled off
C4_Witness ==
    \E i \in 1..Len(recipes) :
        /\ recipes[i].id.d = 1
        /\ recipes[i].id \notin activeRecipeIds
        /\ recipes[i].id \in DOMAIN recipeMultipliers
        /\ recipes[i].ingredients # <<>>
        /\ Len(recipes) = 2

tableFactor(ingredient) ==
    IF ingredient.unitType \in {"volume", "weight"}
    THEN Lookup(UNIT_CONVERSIONS(ingredient.unitType), ingredient.unit)
    ELSE null

\* The quantities stored under a name on the shopping list
quantitiesOf(name) ==
    IF entryIndex(consolidatedIngredients, name) = 0 THEN <<>>
    ELSE consolidatedIngredients[entryIndex(consolidatedIngredients,
                                            name)].quantities

\* The only active contribution to flour is "2 cups flour" of a recipe made
\* twice, shown in imperial units
twoCupsFlourTwice ==
    /\ unitSystem = "imperial"
    /\ \E i \in 1..Len(recipes) :
          /\ recipes[i].id \in activeRecipeIds
          /\ multiplierOf(recipeMultipliers, recipes[i].id) = Num(2)
          /\ \E j \in 1..Len(recipes[i].ingredients) :
                /\ recipes[i].ingredients[j].quantity = Num(2)
                /\ recipes[i].ingredients[j].unit = CUPS
                /\ normalizeOnce(recipes[i].ingredients[j].ingredient)
                       = <<"f", "l", "o", "u", "r">>
    /\ Len(quantitiesOf(<<"f", "l", "o", "u", "r">>)) = 1

\* C6: an active recipe with multiplier k whose ingredient has quantity q
\* in a unit of the conversion table contributes exactly q * k * factor, in
\* ml or g, to the entry of the ingredient; "2 cups flour" of a recipe with
\* multiplier 2 is shown as 4 cups, 32 fl oz, in imperial units.
C6_ContributionInBaseUnits ==
    /\ \A i \in 1..Len(recipes) :
          recipes[i].id \in activeRecipeIds =>
             \A j \in 1..Len(recipes[i].ingredients) :
                tableFactor(recipes[i].ingredients[j]) # null =>
                   \E q \in 1..Len(quantitiesOf(normalizeOnce(
                                 recipes[i].ingredients[j].ingredient))) :
                      /\ quantitiesOf(normalizeOnce(
                             recipes[i].ingredients[j].ingredient))[q].value
                         = RMul(RMul(toNumber(recipes[i].ingredients[j].quantity),
                                     multiplierOf(recipeMultipliers,
                                                  recipes[i].id)),
                                tableFactor(recipes[i].ingredients[j]))
                      /\ quantitiesOf(normalizeOnce(
                             recipes[i].ingredients[j].ingredient))[q].unit
                         = IF recipes[i].ingredients[j].unitType = "volume"
                           THEN ML ELSE G
    /\ twoCupsFlourTwice =>
          \E e \in 1..Len(consolidatedIngredients) :
             /\ consolidatedIngredients[e].name = <<"f", "l", "o", "u", "r">>
             /\ consolidatedIngredients[e].displayQuantity = Num(4)
             /\ consolidatedIngredients[e].displayUnit = CUPS
             /\ consolidatedIngredients[e].flOz = Num(32)

\* The part of C6 about the units that convertToBaseUnit finds: the names of
\* the table that are their own lower case
C6_LowerCaseUnits ==
    \A i \in 1..Len(recipes) :
       recipes[i].id \in activeRecipeIds =>
          \A j \in 1..Len(recipes[i].ingredients) :
             (/\ tableFactor(recipes[i].ingredients[j]) # null
              /\ toLowerCase(recipes[i].ingredients[j].unit)
                     = recipes[i].ingredients[j].unit) =>
                \E q \in 1..Len(quantitiesOf(normalizeOnce(
                              recipes[i].ingredients[j].ingredient))) :
                   quantitiesOf(normalizeOnce(
                       recipes[i].ingredients[j].ingredient))[q].value
                   = RMul(RMul(toNumber(recipes[i].ingredients[j].quantity),
                               multiplierOf(recipeMultipliers, recipes[i].id)),
                          tableFactor(recipes[i].ingredients[j]))

\* The flour of C6 on the shopping list
C6_FlourShown ==
    /\ twoCupsFlourTwice
    /\ \E e \in 1..Len(consolidatedIngredients) :
          /\ consolidatedIngredients[e].name = <<"f", "l", "o", "u", "r">>
          /\ consolidatedIngredients[e].displayQuantity = Num(4)
          /\ consolidatedIngredients[e].flOz = Num(32)

\* The sum of the base values of the quantities of one unit type
RECURSIVE sumOfType(_, _)
sumOfType(quantities, unitType) ==
    IF quantities = <<>> THEN Num(0)
    ELSE IF quantities[1].unitType = unitType
    THEN RAdd(quantities[1].value, sumOfType(Tail(quantities), unitType))
    ELSE sumOfType(Tail(quantities), unitType)

\* The measured total an entry shows: the first item of groupedQuantities
\* when there is one, the display fields of the entry otherwise
shownMeasured(item) ==
    IF item.groupedQuantities # undefined
    THEN [displayQuantity |-> item.groupedQuantities[1].displayQuantity,
          displayUnit |-> item.groupedQuantities[1].displayUnit]
    ELSE [displayQuantity |-> item.displayQuantity,
          displayUnit |-> item.displayUnit]

\* What a base value of a unit type is shown as
shownAs(baseValue, unitType) ==
    [displayQuantity |->
         convertToPreferredUnitSystem(baseValue, unitType,
                                      unitSystem).displayQuantity,
     displayUnit |->
         convertToPreferredUnitSystem(baseValue, unitType,
                                      unitSystem).displayUnit]

\* C7: volume, weight and count contributions to one ingredient are summed
\* per unit type; the measured total an entry shows for a unit type is the
\* sum of the base values of the contributions of that unit type only.
C7_SummedPerUnitType ==
    \A e \in 1..Len(consolidatedIngredients) :
       consolidatedIngredients[e].displayUnitType \in {"volume", "weight"} =>
          shownMeasured(consolidatedIngredients[e])
             = shownAs(sumOfType(consolidatedIngredients[e].quantities,
                                 consolidatedIngredients[e].displayUnitType),
                       consolidatedIngredients[e].displayUnitType)

\* The part of C7 about the entries whose measured contributions are all of
\* one unit type
C7_OneMeasuredType ==
    \A e \in 1..Len(consolidatedIngredients) :
       (/\ consolidatedIngredients[e].displayUnitType \in {"volume", "weight"}
        /\ \A q \in 1..Len(consolidatedIngredients[e].quantities) :
              consolidatedIngredients[e].quantities[q].unitType
                 \in {consolidatedIngredients[e].displayUnitType, "count"}) =>
          shownMeasured(consolidatedIngredients[e])
             = shownAs(sumOfType(consolidatedIngredients[e].quantities,
                                 consolidatedIngredients[e].displayUnitType),
                       consolidatedIngredients[e].displayUnitType)

\* The quantities of an entry that are counts, and the others
countsOf(quantities) ==
    SelectSeq(quantities, LAMBDA q : q.unitType = "count")

measuredOf(quantities) ==
    SelectSeq(quantities, LAMBDA q : q.unitType # "count")

\* The sum of the multiplied quantities of the contributions
RECURSIVE sumOfOriginal(_)
sumOfOriginal(quantities) ==
    IF quantities = <<>> THEN Num(0)
    ELSE RAdd(quantities[1].originalQuantity,
              sumOfOriginal(Tail(quantities)))

\* An entry with a count contribution and a measured total above zero
countAndMeasured(item) ==
    /\ countsOf(item.quantities) # <<>>
    /\ measuredOf(item.quantities) # <<>>
    /\ RLt(Num(0), sumOfOriginal(measuredOf(item.quantities)))

\* C8: an entry with a count contribution and a measured contribution with
\* positive total has groupedQuantities with exactly one measured item and
\* one count item and no single displayQuantity and displayUnit, and the
\* count item is the sum of all count contributions; "1 onion" plus
\* "1/2 cup onion" gives count 1 and volume 1/2 cup.
C8_GroupedQuantities ==
    \A e \in 1..Len(consolidatedIngredients) :
       countAndMeasured(consolidatedIngredients[e]) =>
          /\ consolidatedIngredients[e].groupedQuantities # undefined
          /\ Len(consolidatedIngredients[e].groupedQuantities) = 2
          /\ consolidatedIngredients[e].groupedQuantities[1].unitType
                \in {"volume", "weight"}
          /\ consolidatedIngredients[e].groupedQuantities[2].unitType = "count"
          /\ consolidatedIngredients[e].displayQuantity = undefined
          /\ consolidatedIngredients[e].displayUnit = undefined
          /\ consolidatedIngredients[e].groupedQuantities[2].displayQuantity
                = sumOfOriginal(countsOf(consolidatedIngredients[e].quantities))

\* The part of C8 about the shape of the entry
C8_GroupedShape ==
    \A e \in 1..Len(consolidatedIngredients) :
       countAndMeasured(consolidatedIngredients[e]) =>
          /\ consolidatedIngredients[e].groupedQuantities # undefined
          /\ Len(consolidatedIngredients[e].groupedQuantities) = 2
          /\ consolidatedIngredients[e].groupedQuantities[1].unitType
                \in {"volume", "weight"}
          /\ consolidatedIngredients[e].groupedQuantities[2].unitType = "count"
          /\ consolidatedIngredients[e].displayQuantity = undefined
          /\ consolidatedIngredients[e].displayUnit = undefined

\* "1 onion" beside "1/2 cup onion" of one recipe: count 1, volume 1/2 cup
C8_OnionShown ==
    \E e \in 1..Len(consolidatedIngredients) :
       /\ consolidatedIngredients[e].name = <<"o", "n", "i", "o", "n">>
       /\ Len(consolidatedIngredients[e].quantities) = 2
       /\ consolidatedIngredients[e].groupedQuantities # undefined
       /\ consolidatedIngredients[e].groupedQuantities[1].displayQuantity
             = Str(<<"1", "/", "2">>)
       /\ consolidatedIngredients[e].groupedQuantities[1].displayUnit = CUPS
       /\ consolidatedIngredients[e].groupedQuantities[2].displayQuantity
             = Num(1)

\* The pairs parseIngredientLine collects from a "+" line: none when the
\* first part is no pair, else the first pair and the pairs of the parts
\* after it up to the first part that is no pair
plusPairs(line) ==
    IF parseQuantityUnitPair(Trim(split(line, "+")[1])) = null THEN <<>>
    ELSE collectPairs(split(line, "+"), 2,
                      <<parseQuantityUnitPair(Trim(split(line, "+")[1]))>>,
                      <<>>).allPairs

\* The sum of the pairs in base units: each quantity times the factor of
\* its unit in the conversion table
RECURSIVE sumOfPairs(_)
sumOfPairs(pairs) ==
    IF pairs = <<>> THEN Num(0)
    ELSE RAdd(RMul(pairs[1].quantity,
                   Lookup(UNIT_CONVERSIONS(pairs[1].unitType), pairs[1].unit)),
              sumOfPairs(Tail(pairs)))

\* At least two pairs, all of one unit type
twoPairsOfOneType(pairs) ==
    /\ Len(pairs) >= 2
    /\ \A k \in 1..Len(pairs) : pairs[k].unitType = pairs[1].unitType

\* parseIngredientLine has been called on a line with a "+"
plusLineParsed ==
    /\ parseOutput # null
    /\ parseOutput.fn = "parseIngredientLine"
    /\ includes(parseInput, <<"+">>)

\* C9: for a line with a "+", the result is combined exactly when at least
\* two pairs parse and all parsed pairs share the unit type; its quantity is
\* then the sum of the pairs in base units, in ml or g; otherwise the line
\* is parsed by the single-measurement path.
C9_CombinedLines ==
    plusLineParsed =>
       IF twoPairsOfOneType(plusPairs(Trim(parseInput)))
       THEN /\ parseOutput.value # null
            /\ parseOutput.value.isCombined
            /\ parseOutput.value.quantity
                  = sumOfPairs(plusPairs(Trim(parseInput)))
            /\ parseOutput.value.unit
                  = IF plusPairs(Trim(parseInput))[1].unitType = "volume"
                    THEN ML ELSE G
       ELSE parseOutput.value = parseSingle(Trim(parseInput))

\* The part of C9 about the lines whose units convertToBaseUnit finds
C9_LowerCaseUnits ==
    (/\ plusLineParsed
     /\ \A k \in 1..Len(plusPairs(Trim(parseInput))) :
           toLowerCase(plusPairs(Trim(parseInput))[k].unit)
              = plusPairs(Trim(parseInput))[k].unit) =>
       IF twoPairsOfOneType(plusPairs(Trim(parseInput)))
       THEN /\ parseOutput.value # null
            /\ parseOutput.value.isCombined
            /\ parseOutput.value.quantity
                  = sumOfPairs(plusPairs(Trim(parseInput)))
       ELSE parseOutput.value = parseSingle(Trim(parseInput))

\* "1 c. + 2 tbsp. butter" parsed as 270 ml butter
C9_ButterParsed ==
    /\ plusLineParsed
    /\ parseInput = <<"1", " ", "c", ".", " ", "+", " ", "2", " ", "t", "b",
                      "s", "p", ".", " ", "b", "u", "t", "t", "e", "r">>
    /\ parseOutput.value.isCombined
    /\ parseOutput.value.quantity = Num(270)
    /\ parseOutput.value.unit = ML
    /\ parseOutput.value.ingredient = <<"b", "u", "t", "t", "e", "r">>

\* extractQuantity has been called on the text
quantityExtracted ==
    /\ parseOutput # null
    /\ parseOutput.fn = "extractQuantity"

\* C10: for every text starting with an integer range N-M with M >= N,
\* extractQuantity returns the quantity M, the upper bound, never N or a
\* value between them; "6-8 cups" gives 8.
C10_RangeUpperBound ==
    quantityExtracted =>
       \A n \in 0..MaxRangeNumber, m \in 0..MaxRangeNumber :
          (/\ m >= n
           /\ \E sep \in RangeSeparators, tail \in RangeTails :
                 parseInput = rangeText(n, m, sep, tail)) =>
             /\ parseOutput.value # null
             /\ parseOutput.value.quantity = Num(m)

\* extractQuantity called on "6-8 cups flour" has returned 8
C10_Witness ==
    /\ quantityExtracted
    /\ parseInput = rangeText(6, 8, <<"-">>,
                              <<" ", "c", "u", "p", "s", " ", "f", "l", "o",
                                "u", "r">>)
    /\ parseOutput.value.quantity = Num(8)

C11_AsciiHalf ==
    /\ quantityExtracted
    /\ parseInput = <<"1", " ", "1", "/", "2", " ", "c", "u", "p", "s">>
    /\ parseOutput.value.quantity = Rat(3, 2)

\* parseIngredientLine has been called on the text
lineParsed ==
    /\ parseOutput # null
    /\ parseOutput.fn = "parseIngredientLine"

\* The text after a unit name ends the name: it is empty or starts with
\* whitespace, a comma or a period that ends a sentence
endsUnit(after) ==
    \/ after = <<>>
    \/ IsSpace(after[1])
    \/ after[1] = ","
    \/ after[1] = "." /\ (Len(after) = 1 \/ IsSpace(after[2]))

\* A unit name matches at the start of the remainder, letter case apart
matchesAtStart(rest, name) ==
    /\ Len(rest) >= Len(name)
    /\ toLowerCase(Take(rest, Len(name))) = toLowerCase(name)
    /\ endsUnit(Drop(rest, Len(name)))

\* The text after a unit name and the punctuation behind it starts with a
\* digit
digitAfter(rest, name) ==
    rejectsDigit(stripLeadingPunct(Drop(rest, Len(name))))

namesOf(units) == {units[i].name : i \in 1..Len(units)}

longestOf(names) == {n \in names : \A o \in names : Len(o) <= Len(n)}

\* The units and the unit type a set of matching volume names and a set of
\* matching weight names allow: the longest volume names, else the longest
\* weight names, else no unit
unitsAllowed(volumeNames, weightNames) ==
    IF volumeNames # {}
    THEN [units |-> longestOf(volumeNames), unitType |-> "volume"]
    ELSE IF weightNames # {}
    THEN [units |-> longestOf(weightNames), unitType |-> "weight"]
    ELSE [units |-> {<<>>}, unitType |-> "count"]

unitAllowed(parsed, allowed) ==
    /\ parsed # null
    /\ parsed.unit \in allowed.units
    /\ parsed.unitType = allowed.unitType

\* C12 as stated: the unit of a line is the longest unit name of the volume
\* table, then of the weight table, that matches at the start of the
\* remainder and is followed by whitespace, a comma, a sentence-ending
\* period or the end of the text.
C12_LongestUnitMatch ==
    lineParsed =>
       \A word \in UnitWords, after \in UnitFollowers :
          parseInput = unitLine(word, after) =>
             unitAllowed(parseOutput.value,
                 unitsAllowed(
                     {n \in namesOf(VolumeUnits) :
                         matchesAtStart(word \o after, n)},
                     {n \in namesOf(WeightUnits) :
                         matchesAtStart(word \o after, n)}))

\* C12, amended: the unit of a line is the longest unit name of the volume
\* table, then of the weight table, that matches at the start of the
\* remainder, is followed by whitespace, a comma, a sentence-ending period
\* or the end of the text, and has no digit at the start of the text after
\* it; a unit name followed directly by a letter is never matched.
C12_LongestAcceptedUnit ==
    lineParsed =>
       \A word \in UnitWords, after \in UnitFollowers :
          parseInput = unitLine(word, after) =>
             unitAllowed(parseOutput.value,
                 unitsAllowed(
                     {n \in namesOf(VolumeUnits) :
                         /\ matchesAtStart(word \o after, n)
                         /\ ~digitAfter(word \o after, n)},
                     {n \in namesOf(WeightUnits) :
                         /\ matchesAtStart(word \o after, n)
                         /\ ~digitAfter(word \o after, n)}))

\* "2 cups flour" parsed with the unit "cups"
C12_Witness ==
    /\ lineParsed
    /\ parseInput = unitLine(CUPS, <<" ", "f", "l", "o", "u", "r">>)
    /\ parseOutput.value.unit = CUPS
    /\ parseOutput.value.ingredient = <<"f", "l", "o", "u", "r">>

\* "2 corn" parsed with no unit: "c" is not matched inside "corn"
C12_CornNotSplit ==
    /\ lineParsed
    /\ parseInput = unitLine(<<"c">>, <<"o", "r", "n">>)
    /\ parseOutput.value.unit = <<>>
    /\ parseOutput.value.ingredient = <<"c", "o", "r", "n">>

\* normalizeIngredientName has been called on the name
nameNormalized ==
    /\ parseOutput # null
    /\ parseOutput.fn = "normalizeIngredientName"

\* The part of C13 about the aliases: every alias of INGREDIENT_ALIASES and
\* every key is mapped to the key of its entry, in capitals too
C13_AliasesConverge ==
    nameNormalized =>
       /\ \A e \in 1..Len(INGREDIENT_ALIASES) :
             (\/ parseInput = INGREDIENT_ALIASES[e].key
              \/ \E k \in 1..Len(INGREDIENT_ALIASES[e].aliases) :
                    toLowerCase(parseInput) = INGREDIENT_ALIASES[e].aliases[k])
             => parseOutput.value = INGREDIENT_ALIASES[e].key
       /\ toLowerCase(parseInput) = <<"a", "p", " ", "f", "l", "o", "u", "r">>
             => parseOutput.value = <<"f", "l", "o", "u", "r">>

\* The part of C13 about the names with no alias: a name of which the
\* cleaning steps leave nothing is mapped to the empty text, not to a key
C13_EmptyStaysEmpty ==
    (nameNormalized /\ singularize(cleanName(parseInput)) = <<>>) =>
       parseOutput.value = <<>>

\* C13: normalizeIngredientName maps every alias of one ingredient concept
\* to the same canonical key ("All-Purpose Flour", "AP flour" and "plain
\* flour" all give "flour"); when no alias matches the result is the cleaned
\* text itself, so a name whose cleaned text is empty gives no alias key.
C13_AliasOrCleanedText == C13_AliasesConverge /\ C13_EmptyStaysEmpty

\* "All-Purpose Flour" normalized to "flour"
C13_FlourReached ==
    /\ nameNormalized
    /\ parseInput = <<"A", "l", "l", "-", "P", "u", "r", "p", "o", "s", "e",
                      " ", "F", "l", "o", "u", "r">>
    /\ parseOutput.value = <<"f", "l", "o", "u", "r">>

\* The forms whose text is not empty and gives no ingredient
zeroIngredientForms ==
    {form \in RecipeForms :
        /\ Trim(form.text) # <<>>
        /\ Len(parseRecipeOnce(Trim(form.text))) = 0}

\* The call is refused: the message is shown and the recipes, the active
\* ids, the multipliers, the shopping list and the pending review stay
rejectedNoIngredients ==
    /\ errorMessage' =
           "No ingredients found in the recipe. Please check the format."
    /\ UNCHANGED <<recipes, activeRecipeIds, recipeMultipliers,
                   consolidatedIngredients, pendingRecipeForReview,
                   pendingIngredientsForReview>>

C14_AddRejected ==
    /\ errorMessage =
           "No ingredients found in the recipe. Please check the format."
    /\ pendingRecipeForReview = null
    /\ recipes = <<>>

\* A key holds nothing or text that JSON.parse rejects
absentOrCorrupt(item) == item = null \/ ~isJSON(item)

\* A key holds nothing or a text that is none of the known values
absentOrUnknown(item, known) == item = null \/ item.text \notin known

\* C15: at load each key falls back to its default by itself when it is
\* absent or malformed.  With a valid recipe list, an absent or corrupt
\* active-id key makes every loaded recipe active and an absent or corrupt
\* multiplier key gives every active recipe the multiplier 1; an absent or
\* unknown unit system leaves imperial, an absent or unknown shopping-list
\* sort leaves alphabetical; a corrupt recipe list leaves recipes,
\* activeRecipeIds and recipeMultipliers empty.
C15_LoadFallbacks ==
    [][PageLoad =>
         /\ (localStorage.recipes # null /\ isJSON(localStorage.recipes)) =>
               /\ recipes' = localStorage.recipes.json
               /\ absentOrCorrupt(localStorage.activeRecipes) =>
                     activeRecipeIds' = recipeIds(recipes')
               /\ absentOrCorrupt(localStorage.multipliers) =>
                     /\ DOMAIN recipeMultipliers' = activeRecipeIds'
                     /\ \A id \in activeRecipeIds' :
                           recipeMultipliers'[id] = Num(1)
         /\ absentOrUnknown(localStorage.unitSystem,
                            {"metric", "imperial", "imperial-culinary",
                             "imperial-technical"}) =>
               unitSystem' = "imperial"
         /\ absentOrUnknown(localStorage.shoppingListSort,
                            {"alphabetical", "category"}) =>
               shoppingListSortOrder' = "alphabetical"
         /\ (localStorage.recipes # null /\ ~isJSON(localStorage.recipes)) =>
               /\ recipes' = <<>>
               /\ activeRecipeIds' = {}
               /\ recipeMultipliers' = noMultipliers]_vars

\* The recipes were loaded beside a corrupt active-id key, a corrupt
\* multiplier key and unknown values of the unit system and of the sort:
\* both recipes are active with multiplier 1, in imperial units, sorted
\* alphabetically
C15_Witness ==
    /\ Len(recipes) = 2
    /\ localStorage.activeRecipes = CorruptItem
    /\ localStorage.multipliers = CorruptItem
    /\ localStorage.unitSystem = [text |-> "bogus"]
    /\ localStorage.shoppingListSort = [text |-> "bogus"]
    /\ activeRecipeIds = recipeIds(recipes)
    /\ \A id \in activeRecipeIds : recipeMultipliers[id] = Num(1)
    /\ unitSystem = "imperial"
    /\ shoppingListSortOrder = "alphabetical"
    /\ consolidatedIngredients # <<>>

\* The page was loaded on a corrupt recipe list: the key is removed and
\* the page is empty
C15_CorruptListRemoved ==
    /\ localStorage.recipes = null
    /\ localStorage.activeRecipes = stringify({Num(1)})
    /\ recipes = <<>>
    /\ activeRecipeIds = {}
    /\ ENABLED PageLoad

\* No two recipes of the list share an id
uniqueIds(rs) ==
    \A i \in 1..Len(rs), j \in 1..Len(rs) : i # j => rs[i].id # rs[j].id

\* Every id of the list was made from a reading of Date.now() up to t
idsUpTo(rs, t) == \A i \in 1..Len(rs) : RLt(rs[i].id, Num(t + 1))

\* Every id that enters the list in this step is made from a reading of
\* Date.now() later than every reading before the step, so it differs from
\* every id given before, removed or not
newIdsLater ==
    /\ idsUpTo(recipes, now)
    /\ \A i \in 1..Len(recipes') :
           recipes'[i].id \notin recipeIds(recipes)
               => RLe(Num(now + 1), recipes'[i].id)

\* C16: after any sequence of confirmIngredientReview, importRecipes,
\* loadPreloadedRecipes and removeRecipe, no two recipes of the list share
\* an id, and an id that enters the list was never given before (so the id
\* of a removed recipe is never assigned to a recipe created later).
C16_UniqueIdsNeverReused ==
    [][uniqueIds(recipes') /\ newIdsLater]_vars

\* The first half of C16 alone: no two recipes of the list share an id
C16_NoTwoShareAnId == uniqueIds(recipes)

\* The second half of C16 alone: a new id was never given before
C16_RemovedIdNotReused == [][newIdsLater]_vars

\* A recipe was removed and a recipe was created after it
C16_CreatedAfterRemoval ==
    /\ Len(recipes) > 0
    /\ \E i \in 1..Len(recipes) : RLe(Num(2), recipes[i].id)
    /\ ~ \E i \in 1..Len(recipes) : RLt(recipes[i].id, Num(2))

\* convertToPreferredUnitSystem has been called on the result of
\* convertToBaseUnit
preferredCalled ==
    parseOutput # null /\ parseOutput.fn = "convertToPreferredUnitSystem"

\* The value and the unit the thresholds give a volume of b ml
volumeByThreshold(b, shown) ==
    IF RLe(Num(30), b)
    THEN shown.unit = CUP /\ shown.value = RDiv(b, Num(240))
    ELSE IF RLe(Rat(15, 2), b)
    THEN shown.unit = TABLESPOON /\ shown.value = RDiv(b, Num(15))
    ELSE shown.unit = TEASPOON /\ shown.value = RDiv(b, Num(5))

\* The value and the unit the threshold gives a weight of b g
weightByThreshold(b, shown) ==
    IF RLe(RMul(Num(16), Rat(2835, 100)), b)
    THEN shown.unit = POUND /\ shown.value = RDiv(b, Rat(4536, 10))
    ELSE shown.unit = OUNCE /\ shown.value = RDiv(b, Rat(2835, 100))

unitByThreshold(b, unitType, system, shown) ==
    IF unitType = "count"
    THEN shown.value = b /\ shown.unit = COUNT /\ shown.displayQuantity = b
    ELSE IF system = "metric"
    THEN /\ shown.value = b
         /\ shown.unit = (IF unitType = "volume" THEN ML ELSE G)
         /\ shown.flOz = null
    ELSE IF unitType = "volume"
    THEN /\ volumeByThreshold(b, shown)
         /\ shown.flOz # null
         /\ shown.flOz = Round2(RDiv(b, Num(30)))
    ELSE weightByThreshold(b, shown) /\ shown.flOz = null

\* C17: under the imperial system a volume is shown in cups from 1/8 cup
\* (30 ml), else in tablespoons from 1/2 tablespoon (7.5 ml), else in
\* teaspoons, always with its fluid ounces; a weight in pounds from 16
\* ounces, else in ounces.  Under metric the base value is returned in ml or
\* g, and a count is returned as it is.
C17_UnitByThreshold ==
    preferredCalled =>
        unitByThreshold(parseOutput.base.value, parseOutput.base.unitType,
                        unitSystem, parseOutput.value)

\* 1/8 cup is shown in cups, with 1 fluid ounce
C17_Witness ==
    /\ preferredCalled
    /\ unitSystem = "imperial"
    /\ parseInput.unit = CUP
    /\ parseInput.quantity = Rat(1, 8)
    /\ parseOutput.value.unit = CUP
    /\ parseOutput.value.value = Rat(1, 8)
    /\ parseOutput.value.flOz = Num(1)

\* 1/2 tablespoon is shown in tablespoons, 1 teaspoon in teaspoons
C17_SmallVolumes ==
    /\ preferredCalled
    /\ unitSystem = "imperial"
    /\ parseInput.unitType = "volume"
    /\ \/ parseInput.unit = TABLESPOON /\ parseInput.quantity = Rat(1, 2)
          /\ parseOutput.value.unit = TABLESPOON
       \/ parseInput.unit = TEASPOON /\ parseInput.quantity = Num(1)
          /\ parseOutput.value.unit = TEASPOON

\* 16 ounces are shown as 1 pound
C17_SixteenOunces ==
    /\ preferredCalled
    /\ unitSystem = "imperial"
    /\ parseInput.unit = OUNCE
    /\ parseInput.unitType = "weight"
    /\ parseInput.quantity = Num(16)
    /\ parseOutput.value.unit = POUND
    /\ parseOutput.value.value = Num(1)

\* convertToBaseUnit has been called on the input
baseCalled == parseOutput # null /\ parseOutput.fn = "convertToBaseUnit"

\* The unit is a key of the table of its unit type, whatever the case of
\* its letters
inTable(unit, conversions) ==
    /\ conversions # null
    /\ \E i \in 1..Len(conversions) :
           toLowerCase(conversions[i].name) = toLowerCase(unit)

\* The quantity, the unit and the unit type come back as they went in
sameAsInput(input, base) ==
    /\ base.value = input.quantity
    /\ base.unit = input.unit
    /\ base.unitType = input.unitType

\* C18: convertToBaseUnit called with a unit that is not in the conversion
\* table of its unit type returns the quantity and the unit string it was
\* given, and the quantity of a count or of an input without unit is
\* returned as it is (a unit, when there is one, too).
C18_MissFallsBack ==
    baseCalled =>
        /\ (/\ parseInput.unit # <<>>
            /\ ~inTable(parseInput.unit,
                        UNIT_CONVERSIONS(parseInput.unitType)))
               => sameAsInput(parseInput, parseOutput.value)
        /\ (parseInput.unit = <<>> \/ parseInput.unitType = "count")
               => /\ parseOutput.value.value = parseInput.quantity
                  /\ parseOutput.value.unitType = parseInput.unitType
                  /\ parseInput.unit # <<>>
                         => parseOutput.value.unit = parseInput.unit

\* 2 pinch as a volume comes back as 2 pinch
C18_Witness ==
    /\ baseCalled
    /\ parseInput.unit = <<"p", "i", "n", "c", "h">>
    /\ parseInput.unitType = "volume"
    /\ parseInput.quantity = Num(2)
    /\ parseOutput.value.value = Num(2)
    /\ parseOutput.value.unit = <<"p", "i", "n", "c", "h">>

\* 2 cup as a weight comes back as 2 cup: the weight table has no cup
C18_UnitOfOtherTable ==
    /\ baseCalled
    /\ parseInput.unit = CUP
    /\ parseInput.unitType = "weight"
    /\ parseInput.quantity = Num(2)
    /\ parseOutput.value.value = Num(2)
    /\ parseOutput.value.unit = CUP

\* 2 without unit comes back as 2, named count
C18_NoUnit ==
    /\ baseCalled
    /\ parseInput.unit = <<>>
    /\ parseInput.unitType = "volume"
    /\ parseInput.quantity = Num(2)
    /\ parseOutput.value.value = Num(2)
    /\ parseOutput.value.unit = COUNT

\* formatQuantity has been called on the quantity of the input
formatCalled == parseOutput # null /\ parseOutput.fn = "formatQuantity"

\* The fractions of the table within 0.015 of a fractional part
nearFractions(fractionalPart) ==
    {k \in 1..Len(fractions) :
        RLt(RAbs(RSub(fractionalPart, fractions[k].val)), Rat(15, 1000))}

\* The whole part followed by a fraction, or the fraction alone
wholeAndFraction(whole, fraction) ==
    IF whole > 0 THEN Str(intToString(whole) \o <<" ">> \o fraction)
    ELSE Str(fraction)

\* The result is the whole part with a table fraction near the fractional
\* part when there is one, else the value rounded to two decimals
fractionOrRounded(x, shown) ==
    IF nearFractions(RSub(x, Num(Floor(x)))) # {}
    THEN \E k \in nearFractions(RSub(x, Num(Floor(x)))) :
             shown = wholeAndFraction(Floor(x), fractions[k].str)
    ELSE shown = Round2(x)

\* C19 as stated: for every finite non-negative value formatQuantity
\* returns the whole part followed by the table fraction within 0.015 of
\* the fractional part, and otherwise the value rounded to two decimals.
C19_FractionOrTwoDecimals ==
    formatCalled => fractionOrRounded(parseInput.quantity, parseOutput.value)

\* C19: for every finite non-negative value formatQuantity returns a
\* result: the whole part (the nearest integer when the whole part is 0)
\* when the fractional part is at most 0.01; else the whole part followed by
\* the table fraction within 0.015 of the fractional part; else the value
\* rounded to two decimals.
C19_WholeFractionOrTwoDecimals ==
    formatCalled =>
        IF RLe(RSub(parseInput.quantity, Num(Floor(parseInput.quantity))),
               Rat(1, 100))
        THEN parseOutput.value =
                 (IF Floor(parseInput.quantity) # 0
                  THEN Num(Floor(parseInput.quantity))
                  ELSE Num(Round(parseInput.quantity)))
        ELSE fractionOrRounded(parseInput.quantity, parseOutput.value)

\* 1.008 is shown as 1
C19_Witness ==
    /\ formatCalled
    /\ parseInput.quantity = Rat(126, 125)
    /\ parseOutput.value = Num(1)

\* 1.5 is shown as "1 1/2"
C19_OneAndAHalf ==
    /\ formatCalled
    /\ parseInput.quantity = Rat(3, 2)
    /\ parseOutput.value = Str(<<"1", " ", "1", "/", "2">>)

\* 2.999 is shown as 3
C19_TwoDecimals ==
    /\ formatCalled
    /\ parseInput.quantity = Rat(2999, 1000)
    /\ parseOutput.value = Num(3)

\* The input is a quantity in a unit native to the selected system
nativeInput(input, system) ==
    IF system = "metric"
    THEN \/ input.unit = ML /\ input.unitType = "volume"
         \/ input.unit = G /\ input.unitType = "weight"
    ELSE \/ input.unit \in {CUP, TABLESPOON, TEASPOON}
            /\ input.unitType = "volume"
         \/ input.unit \in {OUNCE, POUND} /\ input.unitType = "weight"

\* The number a displayed quantity stands for
shownNumber(displayQuantity) ==
    IF isString(displayQuantity) THEN parseFraction(displayQuantity.str)
    ELSE displayQuantity

\* x and y differ by at most the given tolerance
within(x, y, allowed) == RLe(RAbs(RSub(x, y)), allowed)

\* C20 as stated: for q in a unit native to the selected system,
\* convertToPreferredUnitSystem applied to convertToBaseUnit(q, u)
\* reconstructs a value within the fraction tolerance (0.015) of q.
C20_ValueOfInput ==
    (preferredCalled /\ nativeInput(parseInput, unitSystem))
        => within(parseOutput.value.value, parseInput.quantity,
                  Rat(15, 1000))

\* C20: for q in a unit u native to the selected system,
\* convertToPreferredUnitSystem applied to convertToBaseUnit(q, u) returns
\* the amount of q u in the unit the thresholds choose: its value times the
\* factor of its unit is q times the factor of u, so the value is q when
\* the unit is u, and the displayed quantity is within the tolerance of the
\* fraction table (0.015, and 0.001 for the three decimals of the table) of
\* that value.
C20_SameAmount ==
    (preferredCalled /\ nativeInput(parseInput, unitSystem))
        => /\ RMul(parseOutput.value.value,
                   Lookup(UNIT_CONVERSIONS(parseInput.unitType),
                          parseOutput.value.unit))
              = RMul(parseInput.quantity,
                     Lookup(UNIT_CONVERSIONS(parseInput.unitType),
                            parseInput.unit))
           /\ parseOutput.value.unit = parseInput.unit
                  => parseOutput.value.value = parseInput.quantity
           /\ within(shownNumber(parseOutput.value.displayQuantity),
                     parseOutput.value.value, Rat(16, 1000))

\* 2 tablespoons come back as 1/8 cup
C20_Witness ==
    /\ preferredCalled
    /\ unitSystem = "imperial"
    /\ parseInput.unit = TABLESPOON
    /\ parseInput.unitType = "volume"
    /\ parseInput.quantity = Num(2)
    /\ parseOutput.value.unit = CUP
    /\ parseOutput.value.value = Rat(1, 8)
    /\ parseOutput.value.displayQuantity = Str(<<"1", "/", "8">>)

\* 1/3 cup comes back as 1/3 cup, 500 g as 500 g
C20_SameUnit ==
    /\ preferredCalled
    /\ \/ /\ unitSystem = "imperial"
          /\ parseInput.unit = CUP
          /\ parseInput.unitType = "volume"
          /\ parseInput.quantity = Rat(1, 3)
          /\ parseOutput.value.unit = CUP
          /\ parseOutput.value.value = Rat(1, 3)
       \/ /\ unitSystem = "metric"
          /\ parseInput.unit = G
          /\ parseInput.unitType = "weight"
          /\ parseInput.quantity = Num(500)
          /\ parseOutput.value.unit = G
          /\ parseOutput.value.value = Num(500)

\* convertToBaseUnit has been called on a parsed line
lineConverted ==
    /\ parseOutput # null
    /\ parseOutput.fn = "convertToBaseUnit"
    /\ "line" \in DOMAIN parseOutput

\* C21: every unit name the unit matcher returns for a line is converted by
\* convertToBaseUnit with the factor of the table entry of that name: the
\* base value is the quantity times the factor stored under the unit.
C21_MatchedUnitConverted ==
    (/\ lineConverted
     /\ parseOutput.line.unit # <<>>
     /\ parseOutput.line.unitType \in {"volume", "weight"})
        => parseOutput.value.value =
               RMul(parseOutput.line.quantity,
                    Lookup(UNIT_CONVERSIONS(parseOutput.line.unitType),
                           parseOutput.line.unit))

\* The same for the unit names written in lower case in the table
C21_LowerCaseNames ==
    (/\ lineConverted
     /\ parseOutput.line.unit # <<>>
     /\ parseOutput.line.unit = toLowerCase(parseOutput.line.unit)
     /\ parseOutput.line.unitType \in {"volume", "weight"})
        => parseOutput.value.value =
               RMul(parseOutput.line.quantity,
                    Lookup(UNIT_CONVERSIONS(parseOutput.line.unitType),
                           parseOutput.line.unit))

\* "2 T flour" is matched as the tablespoon "T" and converted to 10 ml
C21_TablespoonAsTeaspoon ==
    /\ lineConverted
    /\ parseInput = unitLine(<<"T">>, <<" ", "f", "l", "o", "u", "r">>)
    /\ parseOutput.line.unit = <<"T">>
    /\ parseOutput.value.value = Num(10)

\* "2 TB flour" is matched as the tablespoon "TB" and left at 2
C21_TablespoonUnconverted ==
    /\ lineConverted
    /\ parseInput = unitLine(<<"T", "B">>, <<" ", "f", "l", "o", "u", "r">>)
    /\ parseOutput.line.unit = <<"T", "B">>
    /\ parseOutput.value.value = Num(2)
    /\ parseOutput.value.unit = <<"T", "B">>

\* A prep word stands at the start or at the end of the name
prepWordAtEnds(name) ==
    \E k \in 1..Len(INGREDIENT_PREP_WORDS) :
        \/ toLowerCase(name) = INGREDIENT_PREP_WORDS[k]
        \/ startsWith(toLowerCase(name), INGREDIENT_PREP_WORDS[k] \o <<" ">>)
        \/ endsWith(toLowerCase(name), <<" ">> \o INGREDIENT_PREP_WORDS[k])

\* The word stands in the text between spaces or the ends of the text
asWord(text, word) ==
    \/ text = word
    \/ startsWith(text, word \o <<" ">>)
    \/ endsWith(text, <<" ">> \o word)
    \/ includes(text, <<" ">> \o word \o <<" ">>)

\* Every prep word of the line that is no longer in the name is in the notes
removedWordsInNotes(parsed) ==
    \A k \in 1..Len(INGREDIENT_PREP_WORDS) :
        (/\ asWord(toLowerCase(parsed.originalLine),
                   INGREDIENT_PREP_WORDS[k])
         /\ ~includes(toLowerCase(parsed.ingredient),
                      INGREDIENT_PREP_WORDS[k]))
            => includes(toLowerCase(parsed.notes), INGREDIENT_PREP_WORDS[k])

\* C22: in every branch of parseIngredientLine, the combined "+" branch
\* included, no prep word remains at the start or the end of the ingredient
\* name of the result, and each removed word appears in the notes.
C22_PrepWordsStripped ==
    (lineParsed /\ parseOutput.value # null)
        => /\ ~prepWordAtEnds(parseOutput.value.ingredient)
           /\ removedWordsInNotes(parseOutput.value)

\* The same for the branches of a single quantity and of no quantity
C22_SingleBranches ==
    (lineParsed /\ parseOutput.value # null /\ ~parseOutput.value.isCombined)
        => /\ ~prepWordAtEnds(parseOutput.value.ingredient)
           /\ removedWordsInNotes(parseOutput.value)

\* "1 c. + 2 tbsp. chopped butter" keeps the name "chopped butter"
C22_CombinedKeepsPrepWord ==
    /\ lineParsed
    /\ parseOutput.value # null
    /\ parseOutput.value.isCombined
    /\ parseOutput.value.ingredient =
           <<"c", "h", "o", "p", "p", "e", "d", " ", "b", "u", "t", "t", "e",
             "r">>

\* "2 cups fresh basil" has the name "basil" and the notes "fresh"
C22_SingleStripped ==
    /\ lineParsed
    /\ parseOutput.value # null
    /\ parseOutput.value.unit = CUPS
    /\ parseOutput.value.ingredient = <<"b", "a", "s", "i", "l">>
    /\ parseOutput.value.notes = <<"f", "r", "e", "s", "h">>

\* The singular the plural rule is said to give a cleaned name
singularOf(cleaned) ==
    IF endsWith(cleaned, TOMATOES) \/ endsWith(cleaned, POTATOES)
    THEN Take(cleaned, Len(cleaned) - 2)
    ELSE IF endsWith(cleaned, <<"s">>) THEN Take(cleaned, Len(cleaned) - 1)
    ELSE cleaned

\* C23: normalizeIngredientName singularizes plurals: a cleaned name ending
\* in "tomatoes" or "potatoes" loses "es" and every other cleaned name
\* ending in "s" loses that "s" before the aliases are looked up, so a
\* singular name and its plural give the same key.
C23_PluralsSingularized ==
    nameNormalized
        => parseOutput.value = resolveAlias(singularOf(cleanName(parseInput)))

\* The same for the cleaned names that do not end in "es", and for those
\* ending in "tomatoes" or "potatoes"
C23_PluralsNotInEs ==
    (/\ nameNormalized
     /\ \/ ~endsWith(cleanName(parseInput), <<"e", "s">>)
        \/ endsWith(cleanName(parseInput), TOMATOES)
        \/ endsWith(cleanName(parseInput), POTATOES))
        => parseOutput.value = resolveAlias(singularOf(cleanName(parseInput)))

\* "olives" keeps the key "olives"
C23_OlivesKept ==
    /\ nameNormalized
    /\ parseInput = <<"o", "l", "i", "v", "e", "s">>
    /\ parseOutput.value = <<"o", "l", "i", "v", "e", "s">>

\* "carrots" has the key "carrot", "potatoes" the key "potato"
C23_CarrotsSingular ==
    /\ nameNormalized
    /\ \/ /\ parseInput = <<"c", "a", "r", "r", "o", "t", "s">>
          /\ parseOutput.value = <<"c", "a", "r", "r", "o", "t">>
       \/ /\ parseInput = POTATOES
          /\ parseOutput.value = <<"p", "o", "t", "a", "t", "o">>

\* The text after a unit name, without the commas, periods and blanks at
\* its start, starts with a digit
digitFollows(rest, name) ==
    /\ stripLeadingPunct(Drop(rest, Len(name))) # <<>>
    /\ stripLeadingPunct(Drop(rest, Len(name)))[1] \in Digits

\* Every unit name of the two tables that matches at the start of the
\* remainder has a digit at the start of the text after it
allRejected(rest) ==
    \A n \in namesOf(VolumeUnits) \cup namesOf(WeightUnits) :
        matchesAtStart(rest, n) => digitFollows(rest, n)

\* The result for a remainder after the quantity: a unit it has matches and
\* is not followed by a digit, and when every match is rejected the whole
\* remainder is the name of a count
digitRuleOn(rest, parsed) ==
    /\ parsed # null
    /\ parsed.unit # <<>>
           => /\ matchesAtStart(rest, parsed.unit)
              /\ ~digitFollows(rest, parsed.unit)
    /\ allRejected(rest)
           => /\ parsed.unit = <<>>
              /\ parsed.unitType = "count"
              /\ parsed.ingredient = Trim(rest)
    /\ ~allRejected(rest) => parsed.unit # <<>>

\* C24: a unit whose following text starts with a digit is rejected by the
\* unit matcher, which goes on with the next candidates; when no candidate
\* of either table is accepted the whole remainder after the quantity is
\* the ingredient name, with no unit and the unit type count.
C24_DigitRejectsUnit ==
    lineParsed =>
       \A word \in UnitWords, after \in UnitFollowers :
          parseInput = unitLine(word, after) =>
             digitRuleOn(word \o after, parseOutput.value)

\* "2 cups 3 eggs" is a count of "cups 3 eggs"
C24_Witness ==
    /\ lineParsed
    /\ parseInput = unitLine(CUPS, <<" ", "3", " ", "e", "g", "g", "s">>)
    /\ parseOutput.value.unit = <<>>
    /\ parseOutput.value.unitType = "count"
    /\ parseOutput.value.ingredient =
           <<"c", "u", "p", "s", " ", "3", " ", "e", "g", "g", "s">>


\* The length of the numeric expression that a range text N-M starts with
rangeLength(n, m, sep) == Len(natToString(n) \o sep \o natToString(m))

\* The text of the input from index consumed onward
restAfterConsumed == Drop(Trim(parseInput), parseOutput.value.consumed)

\* C25: whenever extractQuantity succeeds, consumed covers exactly the
\* leading numeric expression, so that the text from index consumed onward
\* is the untouched unit and ingredient text, also when the number is
\* followed directly by a non-space character ("6-8cups"); for a digit
\* directly followed by a fraction glyph, consumed is the number of digits
\* plus 1.
C25_ConsumedIsNumericExpression ==
    (quantityExtracted /\ parseOutput.value # null) =>
       /\ \A n \in 0..MaxRangeNumber, m \in 0..MaxRangeNumber,
             sep \in RangeSeparators,
             tail \in { <<>>, <<"c", "u", "p", "s">>,
                        <<" ", "c", "u", "p", "s", " ", "f", "l", "o", "u",
                          "r">> } :
             (m >= n /\ parseInput = rangeText(n, m, sep, tail)) =>
                /\ parseOutput.value.consumed = rangeLength(n, m, sep)
                /\ restAfterConsumed = tail
       /\ \A w \in 0..MaxWhole, f \in GlyphFractions, tail \in MixedTails :
             parseInput = glyphMixed(w, f, tail) =>
                parseOutput.value.consumed = Len(natToString(w)) + 1

\* The part of C25 that the code keeps: a number followed by a space or by
\* the end of the text, and a digit directly followed by a glyph
C25_SpacedOrGlyph ==
    (quantityExtracted /\ parseOutput.value # null) =>
       /\ \A n \in 0..MaxRangeNumber, m \in 0..MaxRangeNumber,
             sep \in RangeSeparators,
             tail \in { <<>>,
                        <<" ", "c", "u", "p", "s", " ", "f", "l", "o", "u",
                          "r">> } :
             (m >= n /\ parseInput = rangeText(n, m, sep, tail)) =>
                /\ parseOutput.value.consumed = rangeLength(n, m, sep)
                /\ restAfterConsumed = tail
       /\ \A w \in 0..MaxWhole, f \in GlyphFractions, tail \in MixedTails :
             parseInput = glyphMixed(w, f, tail) =>
                /\ parseOutput.value.consumed = Len(natToString(w)) + 1
                /\ restAfterConsumed = tail

\* extractQuantity called on "6-8cups" has consumed the "c" of the unit
C25_LetterConsumed ==
    /\ quantityExtracted
    /\ parseInput = rangeText(6, 8, <<"-">>, <<"c", "u", "p", "s">>)
    /\ parseOutput.value.consumed = 4
    /\ restAfterConsumed = <<"u", "p", "s">>

\* extractQuantity called on "2{1/2} cups" has consumed two characters
C25_GlyphConsumed ==
    /\ quantityExtracted
    /\ parseInput = glyphMixed(2, <<"{1/2}", 1, 2>>,
                               <<" ", "c", "u", "p", "s">>)
    /\ parseOutput.value.consumed = 2


\* C26: after any sequence of add, remove, toggle, setRecipeMultiplier,
\* import, clearAll and loadRecipes, every id in activeRecipeIds and every
\* key of recipeMultipliers is the id of a recipe of the recipe list.
C26_IdsAreListed ==
    /\ activeRecipeIds \subseteq recipeIds(recipes)
    /\ DOMAIN recipeMultipliers \subseteq recipeIds(recipes)

\* After clearAll the list is empty and the recipe it held is still active
\* and still has its multiplier
C26_ClearedStillActive ==
    /\ recipes = <<>>
    /\ activeRecipeIds # {}
    /\ DOMAIN recipeMultipliers # {}

\* removeRecipe takes the id out of the list, of the active set and of the
\* multipliers
C26_RemoveForgetsId ==
    [][\A id \in recipeIds(recipes) :
          removeRecipe(id) =>
             /\ id \notin recipeIds(recipes')
             /\ id \notin activeRecipeIds'
             /\ id \notin DOMAIN recipeMultipliers']_vars


\* An ingredient record has no unit exactly when it is a count, and a
\* measured record has a unit of the table of its unit type
unitFitsType(ing) ==
    /\ (ing.unit = <<>>) <=> (ing.unitType = "count")
    /\ ing.unitType \in {"volume", "weight"} =>
          inTable(ing.unit, UNIT_CONVERSIONS(ing.unitType))

storedUnitsFit ==
    \A i \in 1..Len(recipes) :
       \A j \in 1..Len(recipes[i].ingredients) :
          unitFitsType(recipes[i].ingredients[j])

\* C27: for every ingredient record stored on a recipe after any sequence
\* of addRecipe, editRecipe, inline review edits and confirmIngredientReview,
\* unit is null exactly when unitType is count, and a volume or weight
\* record has a unit of its own conversion table.
C27_UnitFitsType == storedUnitsFit

\* As long as no cell of the review table has been edited, the stored
\* records are those of parseIngredientLine and their units fit their types
C27_UneditedFit == inlineEdits = 0 => storedUnitsFit

\* A stored count record has the unit "bulbs" after the quantity cell of
\* its row was edited to "2 bulbs"
C27_CountWithUnit ==
    \E i \in 1..Len(recipes) :
       \E j \in 1..Len(recipes[i].ingredients) :
          /\ recipes[i].ingredients[j].unitType = "count"
          /\ recipes[i].ingredients[j].unit = <<"b", "u", "l", "b", "s">>
          /\ recipes[i].ingredients[j].quantity = Num(2)


itemRendered ==
    parseOutput # null /\ parseOutput.fn = "renderShoppingListItem"

\* C28: formatQuantity is idempotent on its own output: for every
\* non-negative value x, formatQuantity(formatQuantity(x)) equals
\* formatQuantity(x), so the shopping list, which formats the formatted
\* displayQuantity a second time, shows what one formatting gives.
C28_FormatIdempotent ==
    itemRendered => parseOutput.value = parseOutput.displayQuantity

\* A displayQuantity that is a string, a whole part with a fraction or a
\* fraction alone, is shown as it is
C28_FractionsKept ==
    (itemRendered /\ isString(parseOutput.displayQuantity)) =>
        parseOutput.value = parseOutput.displayQuantity

\* 0.3179 is formatted as 0.32, and 0.32 is shown as 1/3
C28_RoundedThenFraction ==
    /\ itemRendered
    /\ parseInput.quantity = Rat(3179, 10000)
    /\ parseOutput.displayQuantity = Rat(32, 100)
    /\ parseOutput.value = Str(<<"1", "/", "3">>)


\* The place in the list of the recipe that the pending review edits, or 0
editedPlace ==
    IF pendingRecipeForReview = null \/ pendingRecipeForReview.id = undefined
    THEN 0
    ELSE IF \E i \in 1..Len(recipes) :
               recipes[i].id = pendingRecipeForReview.id
    THEN CHOOSE i \in 1..Len(recipes) :
             /\ recipes[i].id = pendingRecipeForReview.id
             /\ \A j \in 1..(i - 1) :
                   recipes[j].id # pendingRecipeForReview.id
    ELSE 0

\* The recipe at a place has the reviewed name and rows and its old id, and
\* every other recipe, the active ids and the multipliers are as before
replacedInPlace(place) ==
    /\ Len(recipes') = Len(recipes)
    /\ recipes'[place].id = recipes[place].id
    /\ recipes'[place].name = pendingRecipeForReview.name
    /\ recipes'[place].ingredients = pendingIngredientsForReview.array
    /\ \A i \in 1..Len(recipes) : i # place => recipes'[i] = recipes[i]
    /\ activeRecipeIds' = activeRecipeIds
    /\ recipeMultipliers' = recipeMultipliers

\* C29: confirming an edit of an existing recipe replaces the recipe's
\* content in place: the recipe keeps its id, the number of recipes, the
\* recipe's membership in activeRecipeIds and its multiplier are unchanged
\* and no other recipe is modified; cancelling the review leaves every
\* recipe unchanged.
C29_EditInPlaceCancelNothing ==
    [][/\ (confirmIngredientReview /\ editedPlace # 0) =>
              replacedInPlace(editedPlace)
       /\ closeIngredientReviewModal =>
              UNCHANGED <<recipes, activeRecipeIds, recipeMultipliers,
                          consolidatedIngredients, localStorage>>]_vars

\* The review of an edit is open on rows that differ from the rows of the
\* recipe it edits, after a cell was edited or another text was saved
C29_Witness ==
    /\ reviewModalOpen
    /\ editedPlace # 0
    /\ pendingIngredientsForReview.array # recipes[editedPlace].ingredients

\* A review was cancelled: the modal is closed, the review is still pending
\* and the recipe it was opened on is in the list
C29_Cancelled ==
    /\ ~reviewModalOpen
    /\ pendingRecipeForReview # null
    /\ pendingRecipeForReview.id # undefined
    /\ \E i \in 1..Len(recipes) : recipes[i].id = pendingRecipeForReview.id


\* The lower-case names of the recipes of the preloaded file, which holds
\* each name once
preloadedNames == { <<"s", "o", "u", "p">>, <<"s", "t", "e", "w">> }

\* The places of the list that hold a recipe of a name
placesNamed(name) ==
    { i \in 1..Len(recipes) : toLowerCase(recipes[i].name) = name }

\* C30: for any interleaving of two overlapping loadPreloadedRecipes calls,
\* each suspended at its fetch and JSON awaits, with each other and with
\* the operations of the user, no preloaded recipe is added twice: the list
\* never holds two recipes of the name of a preloaded recipe, and the
\* loaded recipes are inactive.
C30_NoPreloadedTwice ==
    \A name \in preloadedNames :
       /\ Cardinality(placesNamed(name)) <= 1
       /\ \A i \in placesNamed(name) : recipes[i].id \notin activeRecipeIds

\* One call waits for its JSON while the list already holds the two
\* preloaded recipes that the other call added, and the other call is over
C30_Witness ==
    /\ preloading[1] = idle
    /\ preloading[2].at = "json"
    /\ preloading[2].response.json # null
    /\ \A name \in preloadedNames : Cardinality(placesNamed(name)) = 1

\* The two calls wait for their JSON at the same time
C30_BothWaiting ==
    /\ preloading[1].at = "json"
    /\ preloading[2].at = "json"
    /\ recipes = <<>>

=============================================================================
